---- MODULE Spec2Model ----
(***************************************************************************)
(* A model of the scanning engine of scan-rules: the string cursor         *)
(* (src/src/input.rs), the literal matcher with its whitespace, word and   *)
(* comparison policies, and the rule / repetition evaluation that the      *)
(* scan! macro expands to (src/src/macros.rs).                             *)
(*                                                                         *)
(* A string is a sequence of characters; every length and offset is a      *)
(* number of BYTES, as in the source, so a character carries its UTF-8     *)
(* length (len_utf8).                                                      *)
(***************************************************************************)
EXTENDS Integers, Sequences, FiniteSets, TLC

(***************************************************************************)
(* Bounds of the model.                                                    *)
(***************************************************************************)
\* longest input (in characters) handed to scan!
MaxLen == 4
\* largest min and largest finite max of a repetition
MaxMin == 2
MaxMax == 2
\* longest input and longest literal (in characters) handed to
\* try_match_literal when it is exercised on its own
MaxInLen == 4
MaxLitLen == 3
\* longest literal (in characters) handed to try_match_literal when the
\* cursor operations are called one after the other
MaxCurLit == 2
\* longest input (in characters) of the runs whose termination is checked
MaxLiveLen == 2
\* longest input (in characters) of the cursor operations called one after
\* the other
MaxCurLen == 3
\* longest input (in characters) handed to a runtime scanner, and the
\* largest width given to a width wrapper
MaxRunLen == 3
MaxRunWidth == 3
\* longest input (in characters) a value capture is evaluated on
MaxCapLen == 3

(***************************************************************************)
(* Characters.  "SP" is U+0020, "TAB" is U+0009, "eacute" is U+00E9 and    *)
(* "Eacute" is U+00C9 (two bytes each in UTF-8).                           *)
(***************************************************************************)
WhiteSpaceChars == {"SP", "TAB"}
TwoByteChars == {"eacute", "Eacute"}
\* the characters of the \w class among the characters of the model
PERLW == {"a", "A", "x", "eacute", "Eacute"}

\* every character of the model; "," stands for the characters that are neither
\* whitespace nor of the \w class
Chars == WhiteSpaceChars \cup PERLW \cup {","}

is_whitespace(c) == c \in WhiteSpaceChars

len_utf8(c) == IF c \in TwoByteChars THEN 2 ELSE 1

to_lowercase(c) ==
    CASE c = "A" -> "a"
      [] c = "Eacute" -> "eacute"
      [] OTHER -> c

to_ascii_lowercase(c) == IF c = "A" THEN "a" ELSE c

(***************************************************************************)
(* Strings as the source sees them: byte lengths and byte slices.          *)
(***************************************************************************)
RECURSIVE str_len(_)
\* s.len()
str_len(s) == IF s = <<>> THEN 0 ELSE len_utf8(Head(s)) + str_len(Tail(s))

RECURSIVE slice_from(_, _)
\* &s[b..], b a character boundary of s
slice_from(s, b) ==
    IF b <= 0 \/ s = <<>> THEN s ELSE slice_from(Tail(s), b - len_utf8(Head(s)))

RECURSIVE slice_to(_, _)
\* &s[..b], b a character boundary of s
slice_to(s, b) ==
    IF b <= 0 \/ s = <<>> THEN <<>>
    ELSE <<Head(s)>> \o slice_to(Tail(s), b - len_utf8(Head(s)))

RECURSIVE take_while_len(_, _)
\* s.char_indices().take_while(p).map(|(i, c)| i + c.len_utf8()).last(),
\* as a byte count; 0 stands for None (no character taken)
\* P is the set of the characters the predicate accepts
take_while_len(s, P) ==
    IF s = <<>> \/ Head(s) \notin P THEN 0
    ELSE len_utf8(Head(s)) + take_while_len(Tail(s), P)

(***************************************************************************)
(* Whitespace policies (trait SkipSpace).                                  *)
(***************************************************************************)
SpacePolicies == {"IgnoreSpace", "ExactSpace", "FuzzySpace"}

\* fn skip_space: the number of bytes of leading whitespace
skip_space(s) == take_while_len(s, WhiteSpaceChars)

IgnoreSpace_skip_space(s) == take_while_len(s, WhiteSpaceChars)

RECURSIVE ExactSpace_loop(_, _, _, _, _, _)
\* the while-let loop of ExactSpace::match_spaces: acs, bcs are what the two
\* iterators still hold, ai, bi the byte index of their next character
ExactSpace_loop(acs, bcs, ai, bi, last_ai, last_bi) ==
    IF acs = <<>> \/ bcs = <<>> THEN [ok |-> TRUE, a |-> last_ai, b |-> last_bi]
    ELSE LET ac == Head(acs)
             bc == Head(bcs)
         IN  IF ~is_whitespace(ac) THEN [ok |-> TRUE, a |-> ai, b |-> bi]
             ELSE IF ac # bc THEN [ok |-> FALSE, off |-> ai]
             ELSE ExactSpace_loop(Tail(acs), Tail(bcs),
                                  ai + len_utf8(ac), bi + len_utf8(bc),
                                  ai + len_utf8(ac), bi + len_utf8(ac))

ExactSpace_match_spaces(a, b) == ExactSpace_loop(a, b, 0, 0, 0, 0)

FuzzySpace_match_spaces(inp, pat) ==
    LET a_off == skip_space(inp)
        b_off == skip_space(pat)
    IN  IF a_off = 0 /\ b_off = 0 THEN [ok |-> TRUE, a |-> 0, b |-> 0]
        ELSE IF a_off # 0 /\ b_off # 0 THEN [ok |-> TRUE, a |-> a_off, b |-> b_off]
        ELSE [ok |-> FALSE, off |-> 0]

\* a variant that matches white space the way ExactSpace does
IgnoreSpace_match_spaces_exact(a, b) == ExactSpace_match_spaces(a, b)

IgnoreSpace_match_spaces(a, b) ==
    [ok |-> TRUE, a |-> skip_space(a), b |-> skip_space(b)]

\* Space::match_spaces
match_spaces(Space, a, b) ==
    CASE Space = "ExactSpace" -> ExactSpace_match_spaces(a, b)
      [] Space = "FuzzySpace" -> FuzzySpace_match_spaces(a, b)
      [] Space = "IgnoreSpace" -> IgnoreSpace_match_spaces(a, b)

\* Space::skip_space
Space_skip_space(Space, s) ==
    IF Space = "IgnoreSpace" THEN IgnoreSpace_skip_space(s) ELSE 0

(***************************************************************************)
(* Word slicers (trait SliceWord).  An Option<usize> is a sequence of at    *)
(* most one number: None is <<>> and Some(n) is <<n>>.                     *)
(***************************************************************************)
WordPolicies == {"Wordish", "NonSpace"}

None == <<>>

Some(n) == <<n>>

\* a variant that takes a leading white space character for a word
slice_non_space_or_space(s) ==
    LET n == take_while_len(s, Chars \ WhiteSpaceChars)
    IN  IF n # 0 THEN Some(n)
        ELSE IF s = <<>> THEN None ELSE Some(len_utf8(Head(s)))

slice_non_space(s) ==
    LET n == take_while_len(s, Chars \ WhiteSpaceChars) IN IF n = 0 THEN None ELSE Some(n)

slice_wordish(s) ==
    LET word_len == take_while_len(s, PERLW)
    IN  IF word_len # 0 THEN Some(word_len)
        ELSE IF s = <<>> THEN None ELSE Some(len_utf8(Head(s)))

\* Word::slice_word
slice_word(Word, s) ==
    IF Word = "NonSpace" THEN slice_non_space(s) ELSE slice_wordish(s)

(***************************************************************************)
(* Comparison policies (trait StrCompare).                                 *)
(***************************************************************************)
CmpPolicies == {"ExactCompare", "IgnoreCase", "IgnoreAsciiCase"}

ExactCompare_compare(a, b) == a = b

\* a variant that compares the characters as they are
IgnoreCase_compare_as_is(a, b) == a = b

IgnoreCase_compare(a, b) ==
    /\ Len(a) = Len(b)
    /\ \A i \in 1..Len(a) : to_lowercase(a[i]) = to_lowercase(b[i])

IgnoreAsciiCase_compare(a, b) ==
    /\ str_len(a) = str_len(b)
    /\ Len(a) = Len(b)
    /\ \A i \in 1..Len(a) : to_ascii_lowercase(a[i]) = to_ascii_lowercase(b[i])

\* Cmp::compare
compare(Cmp, a, b) ==
    CASE Cmp = "ExactCompare" -> ExactCompare_compare(a, b)
      [] Cmp = "IgnoreCase" -> IgnoreCase_compare(a, b)
      [] Cmp = "IgnoreAsciiCase" -> IgnoreAsciiCase_compare(a, b)

(***************************************************************************)
(* ScanError and StrCursor.                                                *)
(***************************************************************************)
ScanError_new(at, kind) == [at |-> at, kind |-> kind]

literal_mismatch(at) == ScanError_new(at, "LiteralMismatch")

expected_end(at) == ScanError_new(at, "ExpectedEnd")

syntax_no_message == ScanError_new(0, "SyntaxNoMessage")

add_offset(err, off) == [err EXCEPT !.at = @ + off]

\* the policies are type parameters of the cursor: they travel with it
StrCursor_new(slice, Cmp, Space, Word) ==
    [offset |-> 0, slice |-> slice, Cmp |-> Cmp, Space |-> Space, Word |-> Word]

\* a variant that counts the bytes and leaves the slice as it was
advance_by_keeps_slice(self, bytes) ==
    [self EXCEPT !.offset = self.offset + bytes]

advance_by(self, bytes) ==
    [self EXCEPT !.offset = self.offset + bytes,
                 !.slice = slice_from(self.slice, bytes)]

Ok(cur) == [tag |-> "Ok", cur |-> cur]

Err(err, cur) == [tag |-> "Err", err |-> err, cur |-> cur]

Panic == [tag |-> "Panic"]

\* a variant that leaves out what the loop has consumed so far
word_mismatch_at_call(self, tmp_off) ==
    Err(add_offset(literal_mismatch(0), self.offset), self)

\* a variant that hands back the cursor moved to where the loop stopped
word_mismatch_advanced(self, tmp_off) ==
    Err(add_offset(literal_mismatch(0), self.offset + tmp_off),
        advance_by(self, tmp_off))

\* ScanError::literal_mismatch().add_offset(self.offset() + tmp_off): no
\* input word, or a word that does not compare equal to the literal's
word_mismatch(self, tmp_off) ==
    Err(add_offset(literal_mismatch(0), self.offset + tmp_off), self)

\* ScanError::literal_mismatch().add_offset(self.offset() + tmp_off + off):
\* match_spaces answered Err(off)
space_mismatch(self, tmp_off, off) ==
    Err(add_offset(literal_mismatch(0), self.offset + tmp_off + off), self)

\* a variant that accepts the literal only at the end of the input
literal_matched_at_end(self, tmp_off) ==
    IF tmp_off = str_len(self.slice) THEN Ok(advance_by(self, tmp_off))
    ELSE Err(add_offset(literal_mismatch(0), self.offset + tmp_off), self)

\* Ok(self.advance_by(tmp_off)), reached when lit is used up
literal_matched(self, tmp_off) == Ok(advance_by(self, tmp_off))

RECURSIVE match_literal_loop(_, _, _, _)
\* the while loop of try_match_literal, entered with lit.len() > 0 tested
match_literal_loop(self, tmp_off, tmp, lit) ==
    IF str_len(lit) = 0 THEN literal_matched(self, tmp_off)
    ELSE
    LET sp == match_spaces(self.Space, tmp, lit)
    IN  IF ~sp.ok
        THEN space_mismatch(self, tmp_off, sp.off)
        ELSE
        LET tmp1 == slice_from(tmp, sp.a)
            tmp_off1 == tmp_off + sp.a
            lit1 == slice_from(lit, sp.b)
        IN  IF str_len(lit1) = 0 THEN literal_matched(self, tmp_off1)
            ELSE
            LET lb == slice_word(self.Word, lit1)
                tb == slice_word(self.Word, tmp1)
            IN  IF lb = None \/ lb = Some(0) THEN Panic
                ELSE IF tb = None
                THEN word_mismatch(self, tmp_off1)
                ELSE
                LET lit_word == slice_to(lit1, lb[1])
                    tmp_word == slice_to(tmp1, tb[1])
                IN  IF ~compare(self.Cmp, tmp_word, lit_word)
                    THEN word_mismatch(self, tmp_off1)
                    ELSE match_literal_loop(self, tmp_off1 + str_len(tmp_word),
                                            slice_from(tmp1, str_len(tmp_word)),
                                            slice_from(lit1, str_len(lit_word)))

try_match_literal(self, lit) ==
    LET tmp_off == Space_skip_space(self.Space, self.slice)
    IN  match_literal_loop(self, tmp_off, slice_from(self.slice, tmp_off), lit)

(***************************************************************************)
(* The other cursor operations (impl ScanCursor for StrCursor).            *)
(***************************************************************************)
OkOut(out, cur) == [tag |-> "Ok", out |-> out, cur |-> cur]

\* a variant that skips leading whitespace whatever the cursor's policy is
try_end_skips_any(self) ==
    IF skip_space(self.slice) = str_len(self.slice)
    THEN [tag |-> "Ok"]
    ELSE Err(add_offset(expected_end(0), self.offset), self)

\* a variant that reports the error past the white space it skipped
try_end_err_past_skip(self) ==
    LET n == Space_skip_space(self.Space, self.slice)
    IN  IF n = str_len(self.slice) THEN [tag |-> "Ok"]
        ELSE Err(add_offset(expected_end(0), self.offset + n), self)

try_end(self) ==
    IF Space_skip_space(self.Space, self.slice) = str_len(self.slice)
    THEN [tag |-> "Ok"]
    ELSE Err(add_offset(expected_end(0), self.offset), self)

\* scanner/misc.rs: the length of the leading run of \w characters
match_word(s) ==
    LET n == take_while_len(s, PERLW) IN IF n = 0 THEN None ELSE Some(n)

\* Word::scan_from; a scanner answers <<value, bytes consumed>> or an error
Word_scan_from(s) ==
    LET m == match_word(s.slice)
    IN  IF m = None THEN [tag |-> "Err", err |-> syntax_no_message]
        ELSE [tag |-> "Ok", out |-> slice_to(s.slice, m[1]), off |-> m[1]]

\* scanner/misc.rs: the length of the leading run of white space
match_space(s) ==
    LET n == take_while_len(s, WhiteSpaceChars) IN IF n = 0 THEN None ELSE Some(n)

\* Space::scan_from
Space_scan_from(s) ==
    LET m == match_space(s.slice)
    IN  IF m = None THEN [tag |-> "Err", err |-> syntax_no_message]
        ELSE [tag |-> "Ok", out |-> slice_to(s.slice, m[1]), off |-> m[1]]

\* scanner/misc.rs: the length of the leading run of \w characters, or of
\* the first character when there is no such run
match_wordish(s) ==
    LET word_len == take_while_len(s, PERLW)
    IN  IF word_len # 0 THEN Some(word_len)
        ELSE IF s = <<>> THEN None ELSE Some(len_utf8(Head(s)))

\* Wordish::scan_from
Wordish_scan_from(s) ==
    LET m == match_wordish(s.slice)
    IN  IF m = None THEN [tag |-> "Err", err |-> syntax_no_message]
        ELSE [tag |-> "Ok", out |-> slice_to(s.slice, m[1]), off |-> m[1]]

\* Everything::scan_from
Everything_scan_from(s) ==
    [tag |-> "Ok", out |-> s.slice, off |-> str_len(s.slice)]

\* the closure of the tail capture (..name): |s| Ok((s, s.len()))
Tail_scan_from(s) == [tag |-> "Ok", out |-> s.slice, off |-> str_len(s.slice)]

RECURSIVE scan_from(_, _)

\* a variant in which every scanner has its input stripped
wants_leading_junk_stripped_always(S) == TRUE

\* S::wants_leading_junk_stripped (the trait's default is true, Space
\* answers false; ScanRegex answers what its inner scanner answers)
wants_leading_junk_stripped(S) ==
    S \in {"Word", "Wordish", "Everything", "RangeTo", "Regex"}

\* let tmp_off = self.skip_space(); let tmp = self.advance_by(tmp_off)
skip_leading(self) ==
    advance_by(self, Space_skip_space(self.Space, self.slice))

\* match S::scan_from(tmp) { Ok((out, off)) => .., Err(err) => .. }: r is
\* what the scanner answered on the cursor tmp
scanned(self, tmp, r) ==
    IF r.tag = "Ok" THEN OkOut(r.out, advance_by(tmp, r.off))
    ELSE Err(add_offset(r.err, tmp.offset), self)

\* a variant that reports a failure at the offset of the cursor try_scan was
\* called with
scanned_err_at_call(self, tmp, r) ==
    IF r.tag = "Ok" THEN OkOut(r.out, advance_by(tmp, r.off))
    ELSE Err(add_offset(r.err, self.offset), self)

\* try_scan with that variant
try_scan_err_at_call(self, S) ==
    scanned_err_at_call(self, skip_leading(self), scan_from(S, skip_leading(self)))

try_scan(self, S) ==
    scanned(self, skip_leading(self), scan_from(S, skip_leading(self)))

try_scan_raw(self, S) == scanned(self, self, scan_from(S, self))

\* internal.rs
try_scan_static(cur, S) ==
    IF wants_leading_junk_stripped(S) THEN try_scan(cur, S) ELSE try_scan_raw(cur, S)

\* ScanInput::to_cursor: a new cursor of the same input, its offset stripped
to_cursor(self) == StrCursor_new(self.slice, self.Cmp, self.Space, self.Word)

\* ScanInput::from_subslice, the subslice being &self.slice[a..b]
from_subslice(self, a, b) ==
    [self EXCEPT !.offset = self.offset + a,
                 !.slice = slice_to(slice_from(self.slice, a), b - a)]

\* the rule of RangeTo once it has bound b
RangeTo_body(b) ==
    IF b.tag # "Ok" THEN [tag |-> "Err", err |-> b.err]
    ELSE [tag |-> "Ok", out |-> b.out, off |-> b.cur.offset]

\* the rule of RangeTo once its literal has been tried
RangeTo_rule(l) ==
    IF l.tag # "Ok" THEN [tag |-> "Err", err |-> l.err]
    ELSE RangeTo_body(try_scan_static(l.cur, "Word"))

\* scanner/std/mod.rs, RangeTo<T> with T = Word:
\*   scanner! { .. ("..", let b: T, ..tail) => (..b, tail) }
\* which is scan! on s.to_cursor(); "," stands for "." and the offset of the
\* tail in s is the offset of the cursor after b
RangeTo_scan_from(s) ==
    RangeTo_rule(try_match_literal(to_cursor(s), <<",", ",">>))

RECURSIVE find(_, _)
\* str::find: the byte offset of the first character of s that is in P
find(s, P) ==
    IF s = <<>> THEN None
    ELSE IF Head(s) \in P THEN Some(0)
    ELSE LET r == find(Tail(s), P)
         IN  IF r = None THEN None ELSE Some(len_utf8(Head(s)) + r[1])

\* Regex::captures for the regular expression `,(.*)`, "," standing for a
\* punctuation character: the span of the match and of its group 1
captures(s_str) ==
    LET m == find(s_str, {","})
    IN  IF m = None THEN None
        ELSE Some([cover |-> <<m[1], str_len(s_str)>>,
                   pos1 |-> <<m[1] + 1, str_len(s_str)>>])

\* match Then::scan(sl) { Ok((v, _)) => Ok((v, cover.1)), Err(err) => Err(err) }
ScanRegex_then(cap, r) ==
    IF r.tag = "Ok" THEN [tag |-> "Ok", out |-> r.out, off |-> cap.cover[2]]
    ELSE [tag |-> "Err", err |-> r.err]

\* scanner/runtime.rs, ScanRegex<Then>::scan with Then = ScanA<Word>
ScanRegex_scan(s) ==
    LET cap == captures(s.slice)
    IN  IF cap = None THEN [tag |-> "Err", err |-> syntax_no_message]
        ELSE ScanRegex_then(cap[1], scan_from("Word",
                 from_subslice(s, cap[1].pos1[1], cap[1].pos1[2])))

\* S::scan_from for the scanner types of the model
scan_from(S, s) ==
    CASE S = "Word" -> Word_scan_from(s)
      [] S = "Tail" -> Tail_scan_from(s)
      [] S = "RangeTo" -> RangeTo_scan_from(s)
      [] S = "Regex" -> ScanRegex_scan(s)
      [] S = "Space" -> Space_scan_from(s)
      [] S = "Everything" -> Everything_scan_from(s)
      [] S = "Wordish" -> Wordish_scan_from(s)

\* a variant that keeps the error of the rule tried last
furthest_along_last(self, other) == other

\* a variant that gives a tie to the error of the rule tried later
furthest_along_later(self, other) == IF self.at > other.at THEN self ELSE other

\* error.rs
furthest_along(self, other) == IF self.at >= other.at THEN self ELSE other

(***************************************************************************)
(* Pattern terms, as scan_rules_impl! @scan tells them apart.              *)
(***************************************************************************)
Lit(s) == [t |-> "lit", lit |-> s]

Let(S) == [t |-> "let", scanner |-> S]

\* [pat] (sep) {min, max}; sep is <<>> when the repetition has no separator
Rep(pat, sep, min, max) ==
    [t |-> "rep", pat |-> pat, sep |-> sep, min |-> min, max |-> max]

\* ..name
TailCapture == [t |-> "tail"]

\* ^..name
AnchorCapture == [t |-> "anchor"]

(***************************************************************************)
(* State.                                                                  *)
(***************************************************************************)
VARIABLES
    input,      \* scan!: `cur`, the cursor made from $input; every rule clones it
    rules,      \* scan!: the patterns of the rules, in declaration order
    ri,         \* scan!: the rule whose statement is being executed (1 = head)
    result,     \* scan!: `result`
    pc,         \* where the expansion of scan! stands
    terms,      \* @scan: the pattern still to be scanned
    cur,        \* @scan: $cur
    caps,       \* @scan: the values bound so far, in lexical order
    ret,        \* the value the last finished @scan evaluated to
    stack,      \* the @repeat blocks being executed, innermost last
    literal,    \* the literal handed to try_match_literal
    lit_res,    \* what try_match_literal returned, "None" before the call
    \* history, for the properties only
    ops,        \* the cursor operations performed, with the rule they belong to
    rets,       \* the rules tried so far and what each evaluated to
    bodies,     \* the rules whose $body has been evaluated
    rep_done    \* the last @repeat block that finished: how it started and ended

vars == <<input, rules, ri, result, pc, terms, cur, caps, ret, stack,
          literal, lit_res, ops, rets, bodies, rep_done>>

scan_vars == <<rules, ri, result, terms, cur, caps, ret, stack,
               ops, rets, bodies, rep_done>>

NoValue == [tag |-> "None"]

RECURSIVE Strings(_, _)
\* the strings of at most n characters of the set A
Strings(A, n) ==
    IF n = 0 THEN {<<>>}
    ELSE LET S == Strings(A, n - 1)
         IN  S \cup {<<c>> \o s : c \in A, s \in {t \in S : Len(t) = n - 1}}

(***************************************************************************)
(* scan!: the rules, one after the other.                                  *)
(***************************************************************************)
Top == stack[Len(stack)]

Op(name, c, r) == [rule |-> ri, op |-> name, cur |-> c, res |-> r]

\* a variant in which a tail rule is tried whatever `result` holds
rule_skipped_never(res) == FALSE

\* match result { Ok(v) => Ok(v), Err(last_err) => .. }: a tail rule is not
\* entered once `result` is Ok
rule_skipped(res) == res.tag = "Ok"

\* let result = scan_rules_impl!(@scan (cur.clone()); (head pattern,) => body)
\* a variant in which a rule goes on from where the rule before it stopped
rule_cursor_resumes(initial, last) == last

\* (@scan (cur.clone()); ...): the cursor a rule is scanned from, `initial`
\* the cursor of scan! and `last` the cursor the rule before it stopped at
rule_cursor(initial, last) == initial

HeadRule ==
    /\ pc = "head"
    /\ cur' = rule_cursor(input, cur)
    /\ terms' = rules[ri]
    /\ caps' = <<>>
    /\ pc' = "scan"
    /\ UNCHANGED <<input, rules, ri, result, ret, stack, literal, lit_res,
                   ops, rets, bodies, rep_done>>

\* let result = match result { Ok(v) => Ok(v), ... } of a tail rule
SkipRule ==
    /\ pc = "tail"
    /\ rule_skipped(result)
    /\ IF ri < Len(rules) THEN ri' = ri + 1 /\ pc' = "tail"
                          ELSE ri' = ri /\ pc' = "done"
    /\ UNCHANGED <<input, rules, result, terms, cur, caps, ret, stack,
                   literal, lit_res, ops, rets, bodies, rep_done>>

\* ... Err(last_err) => match scan_rules_impl!(@scan (cur.clone()); ...)
TryRule ==
    /\ pc = "tail"
    /\ ~rule_skipped(result)
    /\ cur' = rule_cursor(input, cur)
    /\ terms' = rules[ri]
    /\ caps' = <<>>
    /\ pc' = "scan"
    /\ UNCHANGED <<input, rules, ri, result, ret, stack, literal, lit_res,
                   ops, rets, bodies, rep_done>>

\* the value of a rule's @scan reaches `result`
RuleReturn ==
    /\ pc = "ret"
    /\ stack = <<>>
    /\ result' = IF ri = 1 \/ ret.tag = "Ok" THEN ret
                 ELSE [tag |-> "Err", err |-> furthest_along(result.err, ret.err)]
    /\ rets' = Append(rets, [rule |-> ri, val |-> ret])
    /\ IF ri < Len(rules) THEN ri' = ri + 1 /\ pc' = "tail"
                          ELSE ri' = ri /\ pc' = "done"
    /\ UNCHANGED <<input, rules, terms, cur, caps, ret, stack, literal, lit_res,
                   ops, bodies, rep_done>>

(***************************************************************************)
(* @scan: one term of the pattern.                                         *)
(***************************************************************************)
ScanOk == [tag |-> "Ok", rule |-> ri, caps |-> caps, after |-> cur]

\* termination rule: (@scan ($cur); () => $body)
ScanEnd ==
    /\ pc = "scan"
    /\ terms = <<>>
    /\ LET r == try_end(cur)
       IN  /\ ops' = Append(ops, Op("try_end", cur, r))
           /\ IF r.tag = "Ok"
              THEN ret' = ScanOk /\ bodies' = Append(bodies, ri)
              ELSE ret' = [tag |-> "Err", err |-> r.err] /\ bodies' = bodies
    /\ pc' = "ret"
    /\ UNCHANGED <<input, rules, ri, result, terms, cur, caps, stack,
                   literal, lit_res, rets, rep_done>>

\* tail capture: (@scan ($cur); (..$name,) => $body)
ScanTailCapture ==
    /\ pc = "scan"
    /\ terms # <<>>
    /\ Head(terms).t = "tail"
    /\ LET r == try_scan_raw(cur, "Tail")
       IN  /\ ops' = Append(ops, Op("try_scan_raw", cur, r))
           /\ IF r.tag = "Ok"
              THEN /\ caps' = Append(caps, r.out)
                   /\ cur' = r.cur
                   /\ terms' = <<>>
                   /\ UNCHANGED <<ret, pc>>
              ELSE /\ ret' = [tag |-> "Err", err |-> r.err]
                   /\ pc' = "ret"
                   /\ UNCHANGED <<caps, cur, terms>>
    /\ UNCHANGED <<input, rules, ri, result, stack, literal, lit_res,
                   rets, bodies, rep_done>>

\* anchor capture: (@scan ($cur); (^..$name,) => $body); inside a @repeat
\* block the body is { cur = after; tuple }, which SepReturn and PatReturn do
ScanAnchor ==
    /\ pc = "scan"
    /\ terms # <<>>
    /\ Head(terms).t = "anchor"
    /\ ret' = IF stack = <<>> THEN [ScanOk EXCEPT !.caps = Append(caps, cur)]
                               ELSE ScanOk
    /\ bodies' = IF stack = <<>> THEN Append(bodies, ri) ELSE bodies
    /\ pc' = "ret"
    /\ UNCHANGED <<input, rules, ri, result, terms, cur, caps, stack,
                   literal, lit_res, ops, rets, rep_done>>

\* value capture: (@scan ($cur); (let $name: $t, $($tail)*) => $body)
ScanValue ==
    /\ pc = "scan"
    /\ terms # <<>>
    /\ Head(terms).t = "let"
    /\ LET r == try_scan_static(cur, Head(terms).scanner)
       IN  /\ ops' = Append(ops, Op("try_scan_static", cur, r))
           /\ IF r.tag = "Ok"
              THEN /\ caps' = Append(caps, r.out)
                   /\ cur' = r.cur
                   /\ terms' = Tail(terms)
                   /\ UNCHANGED <<ret, pc>>
              ELSE /\ ret' = [tag |-> "Err", err |-> r.err]
                   /\ pc' = "ret"
                   /\ UNCHANGED <<caps, cur, terms>>
    /\ UNCHANGED <<input, rules, ri, result, stack, literal, lit_res,
                   rets, bodies, rep_done>>

\* literal match: (@scan ($cur); ($lit, $($tail)*) => $body)
ScanLiteral ==
    /\ pc = "scan"
    /\ terms # <<>>
    /\ Head(terms).t = "lit"
    /\ LET r == try_match_literal(cur, Head(terms).lit)
       IN  /\ ops' = Append(ops, Op("try_match_literal", cur, r))
           /\ CASE r.tag = "Ok" ->
                   /\ cur' = r.cur
                   /\ terms' = Tail(terms)
                   /\ UNCHANGED <<ret, pc>>
                [] r.tag = "Err" ->
                   /\ ret' = [tag |-> "Err", err |-> r.err]
                   /\ pc' = "ret"
                   /\ UNCHANGED <<cur, terms>>
                [] r.tag = "Panic" ->
                   /\ pc' = "panic"
                   /\ UNCHANGED <<ret, cur, terms>>
    /\ UNCHANGED <<input, rules, ri, result, caps, stack, literal, lit_res,
                   rets, bodies, rep_done>>


(***************************************************************************)
(* @repeat.with_col_ty: the repetition block.  A frame holds the locals of *)
(* one block: cur, repeats, min, max, the collections, break_err and       *)
(* break_after_sep.                                                        *)
(***************************************************************************)
\* `repeats` is a usize that grows without bound in a loop that never
\* breaks; the model follows a loop up to this count, which elements and
\* separators of one byte or more cannot reach on an input of MaxLen bytes
MaxRepeats == MaxLen + 2

\* a variant that lets every pair of bounds through
min_exceeds_max_never(min, max) == FALSE

\* match (min, max) { (a, Some(b)) if a > b => panic!(..), _ => () }
min_exceeds_max(min, max) == max # None /\ min > max[1]

\* a variant that compares max with the elements before the current one
max_reached_late(max, repeats) == max # None /\ max[1] + 1 = repeats

\* match max { Some(max) if max == repeats => break, _ => () }
max_reached(max, repeats) == max # None /\ max[1] = repeats

\* a variant that scans the separator before the first element too
sep_wanted_always(f) == f.sep # <<>>

\* @if_empty.expr ($($sep)*) {..} else { if repeats > 0 {..} }
sep_wanted(f) == f.sep # <<>> /\ f.repeats > 0

\* the separator matched: cur = after, its captures are pushed
sep_matched(f, r) ==
    [f EXCEPT !.cur = r.after, !.col_sep = Append(f.col_sep, r.caps)]

\* a variant that treats a failed separator like a failed element
sep_failed_fatal(f, err) ==
    [f EXCEPT !.break_err = Some(err), !.break_src = "sep",
              !.break_after_sep = TRUE]

\* a variant that breaks without recording the separator's error
sep_failed_forgets(f, err) == [f EXCEPT !.break_src = "sep"]

\* the separator failed: break_err = Some(err); break
sep_failed(f, err) ==
    [f EXCEPT !.break_err = Some(err), !.break_src = "sep"]

\* a variant that counts the element and leaves the cursor where it was
pat_matched_stays(f, r) ==
    [f EXCEPT !.col_pat = Append(f.col_pat, r.caps),
              !.repeats = f.repeats + 1, !.last_from = f.cur]

\* the pattern matched: cur = after, its captures are pushed, repeats += 1
pat_matched(f, r) ==
    [f EXCEPT !.cur = r.after, !.col_pat = Append(f.col_pat, r.caps),
              !.repeats = f.repeats + 1, !.last_from = f.cur]

\* a variant that does not note that a separator had been consumed
pat_failed_no_flag(f, err) ==
    [f EXCEPT !.break_err = Some(err), !.break_src = "pat"]

\* the pattern failed: break_after_sep = repeats > 0 (when there is a
\* separator); break_err = Some(err); break
pat_failed(f, err) ==
    [f EXCEPT !.break_after_sep = (f.sep # <<>> /\ f.repeats > 0),
              !.break_err = Some(err), !.break_src = "pat"]

\* a variant that also fails a block that stopped on its minimum
repeat_failed_at_min(f) == f.repeats <= f.min \/ f.break_after_sep

\* if repeats < min || break_after_sep
repeat_failed(f) == f.repeats < f.min \/ f.break_after_sep

\* the block up to `loop`: its locals, the collections, the min <= max check
ScanRepeat ==
    /\ pc = "scan"
    /\ terms # <<>>
    /\ Head(terms).t = "rep"
    /\ LET rep == Head(terms)
       IN  IF min_exceeds_max(rep.min, rep.max)
           THEN /\ pc' = "panic"
                /\ UNCHANGED stack
           ELSE /\ pc' = "loop"
                /\ stack' = Append(stack,
                      [pat |-> rep.pat, sep |-> rep.sep,
                       min |-> rep.min, max |-> rep.max,
                       cur |-> cur,
                       repeats |-> 0,
                       col_pat |-> <<>>, col_sep |-> <<>>,
                       break_err |-> None,
                       break_after_sep |-> FALSE,
                       \* what the expansion continues with after the block,
                       \* and what the enclosing @scan had bound
                       tail |-> Tail(terms), caps |-> caps,
                       \* which inner @scan is running
                       phase |-> "pat",
                       \* history: the cursor at entry, why the loop was left,
                       \* the cursor the last element was scanned from
                       start |-> cur, break_src |-> "none",
                       last_from |-> cur])
    /\ UNCHANGED <<input, rules, ri, result, terms, cur, caps, ret,
                   literal, lit_res, ops, rets, bodies, rep_done>>

\* the head of the loop body: the max test, then the separator (when one is
\* configured and repeats > 0) or else the repeating pattern is entered
LoopTop ==
    /\ pc = "loop"
    /\ Top.repeats < MaxRepeats
    /\ LET f == [Top EXCEPT !.break_after_sep = FALSE]
       IN  IF max_reached(f.max, f.repeats)
           THEN /\ stack' = [stack EXCEPT ![Len(stack)] =
                                [f EXCEPT !.break_src = "max"]]
                /\ pc' = "after"
                /\ UNCHANGED <<terms, cur, caps>>
           ELSE /\ stack' = [stack EXCEPT ![Len(stack)] =
                                [f EXCEPT !.phase = IF sep_wanted(f) THEN "sep"
                                                                     ELSE "pat"]]
                /\ terms' = IF sep_wanted(f) THEN f.sep \o <<AnchorCapture>>
                                             ELSE f.pat \o <<AnchorCapture>>
                /\ cur' = f.cur
                /\ caps' = <<>>
                /\ pc' = "scan"
    /\ UNCHANGED <<input, rules, ri, result, ret, literal, lit_res,
                   ops, rets, bodies, rep_done>>

\* the match on the separator's @scan; on Ok the repeating pattern is entered
SepReturn ==
    /\ pc = "ret"
    /\ stack # <<>>
    /\ Top.phase = "sep"
    /\ IF ret.tag = "Ok"
       THEN /\ stack' = [stack EXCEPT ![Len(stack)] =
                            [sep_matched(Top, ret) EXCEPT !.phase = "pat"]]
            /\ terms' = Top.pat \o <<AnchorCapture>>
            /\ cur' = stack'[Len(stack)].cur
            /\ caps' = <<>>
            /\ pc' = "scan"
       ELSE /\ stack' = [stack EXCEPT ![Len(stack)] = sep_failed(Top, ret.err)]
            /\ pc' = "after"
            /\ UNCHANGED <<terms, cur, caps>>
    /\ UNCHANGED <<input, rules, ri, result, ret, literal, lit_res,
                   ops, rets, bodies, rep_done>>

\* the match on the repeating pattern's @scan
PatReturn ==
    /\ pc = "ret"
    /\ stack # <<>>
    /\ Top.phase = "pat"
    /\ IF ret.tag = "Ok"
       THEN /\ stack' = [stack EXCEPT ![Len(stack)] = pat_matched(Top, ret)]
            /\ pc' = "loop"
       ELSE /\ stack' = [stack EXCEPT ![Len(stack)] = pat_failed(Top, ret.err)]
            /\ pc' = "after"
    /\ UNCHANGED <<input, rules, ri, result, terms, cur, caps, ret,
                   literal, lit_res, ops, rets, bodies, rep_done>>

\* after the loop: the block evaluates to the last error, or to the @scan of
\* the terms that follow the repetition
AfterLoop ==
    /\ pc = "after"
    /\ LET f == Top
       IN  /\ IF repeat_failed(f)
              THEN IF f.break_err = None
                   THEN /\ pc' = "panic"
                        /\ UNCHANGED <<stack, ret, terms, cur, caps>>
                   ELSE /\ ret' = [tag |-> "Err", err |-> f.break_err[1]]
                        /\ stack' = SubSeq(stack, 1, Len(stack) - 1)
                        /\ pc' = "ret"
                        /\ UNCHANGED <<terms, cur, caps>>
              ELSE /\ stack' = SubSeq(stack, 1, Len(stack) - 1)
                   /\ cur' = f.cur
                   /\ terms' = f.tail
                   /\ caps' = f.caps \o <<f.col_pat, f.col_sep>>
                   /\ pc' = "scan"
                   /\ UNCHANGED ret
           /\ rep_done' = [tag |-> "Some", f |-> f, pc |-> pc',
                           cur |-> cur', terms |-> terms', ret |-> ret',
                           depth |-> Len(stack'), rule |-> ri]
    /\ UNCHANGED <<input, rules, ri, result, literal, lit_res, ops, rets, bodies>>

(***************************************************************************)
(* The inputs and the rules scan! is run on.                               *)
(***************************************************************************)
ScanChars == {"x", ",", "SP"}

RepBounds ==
    {<<min, max>> : min \in 0..MaxMin,
                    max \in {None} \cup {Some(m) : m \in 0..MaxMax}}

\* [pat] (sep): the repeating pattern and the separator pattern
RepShapes ==
    { <<<<Lit(<<",">>)>>, <<>>>>,
      <<<<Lit(<<"x">>)>>, <<Lit(<<",">>)>>>>,
      <<<<Let("Word")>>, <<Lit(<<",">>)>>>>,
      <<<<Let("Word")>>, <<>>>>,
      <<<<Lit(<<",">>)>>, <<Let("Word")>>>> }

RepRules ==
    {<<Rep(sh[1], sh[2], b[1], b[2])>> \o rest :
        sh \in RepShapes, b \in RepBounds, rest \in {<<>>, <<TailCapture>>}}

\* a repetition inside a repetition, and a repetition between other terms
NestedRules ==
    { <<Rep(<<Lit(<<",">>), Rep(<<Lit(<<"x">>)>>, <<>>, 0, None)>>, <<>>, 1, None)>>,
      <<Lit(<<"x">>), Rep(<<Lit(<<",">>), Let("Word")>>, <<>>, 0, Some(1)), Lit(<<"x">>)>> }

SimpleRules ==
    { <<Lit(<<"x">>)>>,
      <<Lit(<<"x">>), TailCapture>>,
      <<Let("Word")>>,
      <<Lit(<<"x">>), Lit(<<",">>)>>,
      <<Let("Word"), Lit(<<",">>), AnchorCapture>>,
      <<Lit(<<"x", "SP", "x">>)>> }

\* rules with a repetition whose min exceeds its max, first and after
\* another term
MisconfiguredRules ==
    { <<Rep(<<Lit(<<",">>)>>, <<>>, 2, Some(1))>>,
      <<Lit(<<"x">>), Rep(<<Lit(<<",">>)>>, <<>>, 2, Some(1))>> }

RuleSets ==
    {<<r>> : r \in RepRules \cup NestedRules \cup SimpleRules
                   \cup MisconfiguredRules}
    \cup {<<r1, r2>> : r1 \in SimpleRules, r2 \in MisconfiguredRules}
    \cup {<<r1, r2>> : r1, r2 \in SimpleRules}
    \cup {<<r1, r2, r3>> : r1, r2, r3 \in
             {<<Lit(<<"x">>)>>, <<Let("Word"), Lit(<<",">>), AnchorCapture>>,
              <<Lit(<<"x">>), Lit(<<",">>)>>}}

Init ==
    /\ \E inp \in Strings(ScanChars, MaxLen), Space \in SpacePolicies :
          input = StrCursor_new(inp, "ExactCompare", Space, "Wordish")
    /\ rules \in RuleSets
    /\ ri = 1
    /\ result = NoValue
    /\ pc = "head"
    /\ terms = <<>>
    /\ cur = input
    /\ caps = <<>>
    /\ ret = NoValue
    /\ stack = <<>>
    /\ literal = <<>>
    /\ lit_res = NoValue
    /\ ops = <<>>
    /\ rets = <<>>
    /\ bodies = <<>>
    /\ rep_done = NoValue

Next ==
    \/ HeadRule
    \/ SkipRule
    \/ TryRule
    \/ RuleReturn
    \/ ScanEnd
    \/ ScanTailCapture
    \/ ScanAnchor
    \/ ScanValue
    \/ ScanLiteral
    \/ ScanRepeat
    \/ LoopTop
    \/ SepReturn
    \/ PatReturn
    \/ AfterLoop

Spec == Init /\ [][Next]_vars

(***************************************************************************)
(* The literal matcher on its own: one call of try_match_literal on a      *)
(* fresh cursor, under every combination of the policies.                  *)
(***************************************************************************)
\* the input and the literal are written in one of these alphabets
\* the inputs and literals try_match_literal is called with: strings over a
\* few characters each, under the policies that tell these characters apart
LitFamilies ==
    { [chars |-> {"a", "SP", "TAB"}, Cmp |-> {"ExactCompare"},
       Space |-> SpacePolicies, Word |-> WordPolicies],
      [chars |-> {"a", ",", "SP"}, Cmp |-> {"ExactCompare"},
       Space |-> SpacePolicies, Word |-> WordPolicies],
      [chars |-> {"a", "A", "SP"}, Cmp |-> CmpPolicies,
       Space |-> SpacePolicies, Word |-> WordPolicies],
      [chars |-> {"a", "eacute", "Eacute"}, Cmp |-> CmpPolicies,
       Space |-> SpacePolicies, Word |-> {"Wordish"}] }

LitInit ==
    /\ \E F \in LitFamilies :
        /\ \E inp \in Strings(F.chars, MaxInLen), Cmp \in F.Cmp,
              Space \in F.Space, Word \in F.Word :
                input = StrCursor_new(inp, Cmp, Space, Word)
        /\ literal \in Strings(F.chars, MaxLitLen)
    /\ lit_res = NoValue
    /\ pc = "lit"
    /\ rules = <<>>
    /\ ri = 1
    /\ result = NoValue
    /\ terms = <<>>
    /\ cur = input
    /\ caps = <<>>
    /\ ret = NoValue
    /\ stack = <<>>
    /\ ops = <<>>
    /\ rets = <<>>
    /\ bodies = <<>>
    /\ rep_done = NoValue

MatchLiteral ==
    /\ pc = "lit"
    /\ lit_res' = try_match_literal(input, literal)
    /\ pc' = "done"
    /\ UNCHANGED <<input, literal>>
    /\ UNCHANGED scan_vars

LitNext == MatchLiteral

LitSpec == LitInit /\ [][LitNext]_vars

(***************************************************************************)
(* scan! run to its end: the program takes its next step as long as it has *)
(* one.  The rules include repetitions whose pattern can match without     *)
(* consuming anything.                                                     *)
(***************************************************************************)
\* [["x"]*]*, [""]*, the same with a finite max, with a separator, with
\* a pattern that consumes, and after a literal
ZeroWidthRules ==
    { <<Rep(<<Rep(<<Lit(<<"x">>)>>, <<>>, 0, None)>>, <<>>, 0, None)>>,
      <<Rep(<<Lit(<<>>)>>, <<>>, 0, None)>>,
      <<Rep(<<Rep(<<Lit(<<"x">>)>>, <<>>, 0, None)>>, <<>>, 0, Some(2))>>,
      <<Rep(<<Lit(<<>>)>>, <<>>, 1, Some(2)), TailCapture>>,
      <<Rep(<<Lit(<<>>)>>, <<Lit(<<",">>)>>, 0, None)>>,
      <<Rep(<<Rep(<<Lit(<<"x">>)>>, <<>>, 1, None)>>, <<>>, 0, None)>>,
      <<Lit(<<"x">>), Rep(<<Lit(<<>>)>>, <<>>, 0, None)>> }

LiveRuleSets ==
    {<<r>> : r \in ZeroWidthRules \cup NestedRules \cup SimpleRules}
    \cup {<< <<Rep(sh[1], sh[2], 0, None)>> \o rest >> :
             sh \in RepShapes, rest \in {<<>>, <<TailCapture>>}}
    \cup {<<r1, r2>> : r1 \in SimpleRules, r2 \in ZeroWidthRules \cup SimpleRules}

LiveInit ==
    /\ \E inp \in Strings(ScanChars, MaxLiveLen), Space \in SpacePolicies :
          input = StrCursor_new(inp, "ExactCompare", Space, "Wordish")
    /\ rules \in LiveRuleSets
    /\ ri = 1
    /\ result = NoValue
    /\ pc = "head"
    /\ terms = <<>>
    /\ cur = input
    /\ caps = <<>>
    /\ ret = NoValue
    /\ stack = <<>>
    /\ literal = <<>>
    /\ lit_res = NoValue
    /\ ops = <<>>
    /\ rets = <<>>
    /\ bodies = <<>>
    /\ rep_done = NoValue

\* the steps of Next other than the literal match
OtherSteps ==
    \/ HeadRule
    \/ SkipRule
    \/ TryRule
    \/ RuleReturn
    \/ ScanEnd
    \/ ScanTailCapture
    \/ ScanAnchor
    \/ ScanValue
    \/ ScanRepeat
    \/ LoopTop
    \/ SepReturn
    \/ PatReturn
    \/ AfterLoop

\* the literal match is the step to take: ScanLiteral is enabled
LiteralReady == pc = "scan" /\ terms # <<>> /\ Head(terms).t = "lit"

\* the expansion of scan! is sequential code: whatever step it has, it
\* takes.  The weak fairness of ScanLiteral is written with its enabling
\* condition spelled out.
LiveSpec ==
    /\ LiveInit
    /\ [][Next]_vars
    /\ WF_vars(OtherSteps)
    /\ ([]<>~LiteralReady \/ []<><<ScanLiteral>>_vars)

(***************************************************************************)
(* The cursor operations called one after the other on the cursor of an    *)
(* input: each call is made on the cursor the call before it returned.     *)
(* `ops` holds the call whose result the caller is looking at.             *)
(***************************************************************************)
\* a two-byte letter, punctuation and two kinds of white space
CurChars == {"eacute", ",", "SP", "TAB"}

CurInit ==
    /\ \E inp \in Strings(CurChars, MaxCurLen),
          Space \in SpacePolicies, Word \in WordPolicies :
             input = StrCursor_new(inp, "ExactCompare", Space, Word)
    /\ cur = input
    /\ literal = <<>>
    /\ lit_res = NoValue
    /\ pc = "cur"
    /\ rules = <<>>
    /\ ri = 1
    /\ result = NoValue
    /\ terms = <<>>
    /\ caps = <<>>
    /\ ret = NoValue
    /\ stack = <<>>
    /\ ops = <<>>
    /\ rets = <<>>
    /\ bodies = <<>>
    /\ rep_done = NoValue

\* the scanner types handed to try_scan and to try_scan_raw
CurScanners == {"Word", "RangeTo", "Regex"}

\* a call on `cur`, with the scanner S or the literal lit, returned r
CurCalled(name, S, lit, r) ==
    /\ ops' = <<Op(name, cur, r) @@ [scanner |-> S]>>
    /\ literal' = lit
    /\ lit_res' = r
    /\ pc' = "called"
    /\ UNCHANGED cur

\* the caller goes on with the cursor it got back (try_end gives none back
\* when it succeeds)
CurResume ==
    /\ pc = "called"
    /\ cur' = IF lit_res.tag = "Ok" /\ ops[1].op = "try_end"
              THEN cur ELSE lit_res.cur
    /\ ops' = <<>>
    /\ literal' = <<>>
    /\ lit_res' = NoValue
    /\ pc' = "cur"
    /\ UNCHANGED <<input, rules, ri, result, terms, caps, ret, stack,
                   rets, bodies, rep_done>>

CurMatchLiteral ==
    /\ pc = "cur"
    /\ \E lit \in Strings(CurChars, MaxCurLit) :
          LET r == try_match_literal(cur, lit)
          IN  IF r.tag = "Panic"
              THEN /\ pc' = "panic"
                   /\ literal' = lit
                   /\ lit_res' = r
                   /\ UNCHANGED <<ops, cur>>
              ELSE CurCalled("try_match_literal", "", lit, r)
    /\ UNCHANGED <<input, rules, ri, result, terms, caps, ret, stack,
                   rets, bodies, rep_done>>

CurTryScan ==
    /\ pc = "cur"
    /\ \E S \in CurScanners :
          CurCalled("try_scan", S, <<>>, try_scan(cur, S))
    /\ UNCHANGED <<input, rules, ri, result, terms, caps, ret, stack,
                   rets, bodies, rep_done>>

CurTryScanRaw ==
    /\ pc = "cur"
    /\ \E S \in CurScanners \cup {"Tail"} :
          CurCalled("try_scan_raw", S, <<>>, try_scan_raw(cur, S))
    /\ UNCHANGED <<input, rules, ri, result, terms, caps, ret, stack,
                   rets, bodies, rep_done>>

CurTryEnd ==
    /\ pc = "cur"
    /\ CurCalled("try_end", "", <<>>, try_end(cur))
    /\ UNCHANGED <<input, rules, ri, result, terms, caps, ret, stack,
                   rets, bodies, rep_done>>

CurNext ==
    \/ CurMatchLiteral
    \/ CurTryScan
    \/ CurTryScanRaw
    \/ CurTryEnd
    \/ CurResume

CurSpec == CurInit /\ [][CurNext]_vars

(***************************************************************************)
(* The runtime scanners (scanner/runtime.rs): a scanner is a value, and a   *)
(* wrapper hands a part of its input to the scanner it wraps.  One scanner  *)
(* is called once on one input.                                             *)
(***************************************************************************)
RunChars == {"x", "eacute", ",", "SP"}

\* scan_a::<S>()
ScanA(S) == [k |-> "ScanA", S |-> S]

\* exact_width(w, then)
ExactWidth(w, then) == [k |-> "ExactWidth", w |-> w, then |-> then]

\* max_width(w, then)
MaxWidth(w, then) == [k |-> "MaxWidth", w |-> w, then |-> then]

\* min_width(w, then)
MinWidth(w, then) == [k |-> "MinWidth", w |-> w, then |-> then]

\* re(r, then)
ScanRegex(r, then) == [k |-> "ScanRegex", re |-> r, then |-> then]

\* the regular expressions of the model, "," standing for a punctuation
\* character: `,(.*)` has a group, `,+` has none
Regexes == {",(.*)", ",+"}

\* ScanError::syntax(desc), as the runtime scanners call it
syntax(desc) == ScanError_new(0, "Syntax")

\* ScanA<S>::scan
ScanA_scan(S, s) == scan_from(S, s)

RECURSIVE is_char_boundary(_, _)
\* str::is_char_boundary
is_char_boundary(s, b) ==
    IF b = 0 THEN TRUE
    ELSE IF s = <<>> \/ b < 0 THEN FALSE
    ELSE is_char_boundary(Tail(s), b - len_utf8(Head(s)))

RECURSIVE left_of_byte_pos(_, _)
\* StrCursor::new_at_left_of_byte_pos(s, pos).slice_before().len(): the
\* character boundary at pos or next to the left of it
left_of_byte_pos(s, pos) ==
    IF s = <<>> \/ len_utf8(Head(s)) > pos THEN 0
    ELSE len_utf8(Head(s)) + left_of_byte_pos(Tail(s), pos - len_utf8(Head(s)))

\* a variant that returns what the wrapped scanner counted
ExactWidth_then_inner(w, r) == r

\* match self.1.scan(sl) { Ok((_, n)) if n != self.0 => Err(..),
\*                         Err(err) => Err(err), Ok((v, _)) => Ok((v, self.0)) }
ExactWidth_then(w, r) ==
    IF r.tag = "Ok" /\ r.off # w
    THEN [tag |-> "Err", err |-> syntax("value did not consume enough characters")]
    ELSE IF r.tag = "Ok" THEN [tag |-> "Ok", out |-> r.out, off |-> w]
    ELSE r

\* a variant that lets a short value pass
MinWidth_then_any(w, r) == r

\* match self.1.scan(s) { Ok((_, n)) if n < self.0 => Err(..), other => other }
MinWidth_then(w, r) ==
    IF r.tag = "Ok" /\ r.off < w
    THEN [tag |-> "Err", err |-> syntax("scanned value too short")]
    ELSE r

\* Regex::captures(s_str): cover is cap.pos(0), pos1 is cap.pos(1); the
\* search finds the leftmost match
captures_of(re, s_str) ==
    LET m == find(s_str, {","})
    IN  IF m = None THEN None
        ELSE IF re = ",(.*)"
        THEN Some([cover |-> <<m[1], str_len(s_str)>>,
                   pos1 |-> Some(<<m[1] + 1, str_len(s_str)>>)])
        ELSE Some([cover |-> <<m[1], m[1] + take_while_len(slice_from(s_str, m[1]), {","})>>,
                   pos1 |-> None])

\* let sl = if let Some(sl) = cap.name("scan") { sl }
\*          else if let Some((a, b)) = cap.pos(1) { &s_str[a..b] }
\*          else { &s_str[cover.0..cover.1] };
\* no regular expression of the model has a group named scan
regex_slice(cap) == IF cap.pos1 # None THEN cap.pos1[1] ELSE cap.cover

\* a variant that adds what the wrapped scanner counted to the end of the
\* match
ScanRegex_result_adds(cap, r) ==
    IF r.tag = "Ok"
    THEN [tag |-> "Ok", out |-> r.out, off |-> cap.cover[2] + r.off]
    ELSE r

\* match self.1.scan(sl) { Ok((v, _)) => Ok((v, cover.1)), Err(err) => Err(err) }
ScanRegex_result(cap, r) ==
    IF r.tag = "Ok" THEN [tag |-> "Ok", out |-> r.out, off |-> cap.cover[2]]
    ELSE r

RECURSIVE ScanStr_scan(_, _)
\* ScanStr::scan of the runtime scanner sc on the input s; &s_str[..w]
\* panics when w is not a character boundary
ScanStr_scan(sc, s) ==
    CASE sc.k = "ScanA" -> ScanA_scan(sc.S, s)
      [] sc.k = "ExactWidth" ->
            IF str_len(s.slice) < sc.w
            THEN [tag |-> "Err", err |-> syntax("input not long enough")]
            ELSE IF ~is_char_boundary(s.slice, sc.w) THEN Panic
            ELSE ExactWidth_then(sc.w,
                     ScanStr_scan(sc.then, from_subslice(s, 0, sc.w)))
      [] sc.k = "MaxWidth" ->
            ScanStr_scan(sc.then,
                from_subslice(s, 0, left_of_byte_pos(s.slice,
                    IF str_len(s.slice) < sc.w THEN str_len(s.slice) ELSE sc.w)))
      [] sc.k = "MinWidth" ->
            IF str_len(s.slice) < sc.w
            THEN [tag |-> "Err", err |-> syntax("expected more bytes to scan")]
            ELSE MinWidth_then(sc.w, ScanStr_scan(sc.then, s))
      [] sc.k = "ScanRegex" ->
            IF captures_of(sc.re, s.slice) = None
            THEN [tag |-> "Err", err |-> syntax("no match for regular expression")]
            ELSE ScanRegex_result(captures_of(sc.re, s.slice)[1],
                     ScanStr_scan(sc.then,
                         from_subslice(s,
                             regex_slice(captures_of(sc.re, s.slice)[1])[1],
                             regex_slice(captures_of(sc.re, s.slice)[1])[2])))

\* the widths given to the wrappers
Widths == 0 .. MaxRunWidth

\* the wrappers around the scanner then
Wrappers(then) ==
    {ExactWidth(w, then) : w \in Widths}
    \cup {MaxWidth(w, then) : w \in Widths}
    \cup {MinWidth(w, then) : w \in Widths}
    \cup {ScanRegex(r, then) : r \in Regexes}

\* the scanners called: a static scanner, wrapped once or twice
RunScanners ==
    LET S0 == {ScanA("Word"), ScanA("Everything")}
        S1 == UNION {Wrappers(t) : t \in S0}
    IN  S0 \cup S1 \cup UNION {Wrappers(t) : t \in S1}

RunInit ==
    /\ \E inp \in Strings(RunChars, MaxRunLen) :
          input = StrCursor_new(inp, "ExactCompare", "IgnoreSpace", "Wordish")
    /\ rules \in RunScanners
    /\ lit_res = NoValue
    /\ pc = "run"
    /\ ri = 1
    /\ result = NoValue
    /\ terms = <<>>
    /\ cur = input
    /\ caps = <<>>
    /\ ret = NoValue
    /\ stack = <<>>
    /\ literal = <<>>
    /\ ops = <<>>
    /\ rets = <<>>
    /\ bodies = <<>>
    /\ rep_done = NoValue

\* scanner.scan(input)
RunScan ==
    /\ pc = "run"
    /\ lit_res' = ScanStr_scan(rules, input)
    /\ pc' = IF lit_res'.tag = "Panic" THEN "panic" ELSE "ran"
    /\ UNCHANGED <<input, literal>>
    /\ UNCHANGED scan_vars

RunNext == RunScan

RunSpec == RunInit /\ [][RunNext]_vars

(***************************************************************************)
(* A value capture, the @scan arms `let name: T` and `let name <| scanner`  *)
(* (macros.rs 209-255): one capture is evaluated on one cursor.             *)
(***************************************************************************)
CapChars == {"SP", "TAB", "x", ","}

\* let name <| scanner
LetRuntime(sc) == [t |-> "let_rt", scanner |-> sc]

RECURSIVE ScanStr_wants(_)
\* ScanStr::wants_leading_junk_stripped: a wrapper answers what the scanner
\* it wraps answers, ScanA<S> what S answers
ScanStr_wants(sc) ==
    IF sc.k = "ScanA" THEN wants_leading_junk_stripped(sc.S)
    ELSE ScanStr_wants(sc.then)

\* internal.rs: cur.try_scan(|s| scan.scan(s)) or cur.try_scan_raw(..)
try_scan_runtime(c, scan) ==
    IF ScanStr_wants(scan)
    THEN scanned(c, skip_leading(c), ScanStr_scan(scan, skip_leading(c)))
    ELSE scanned(c, c, ScanStr_scan(scan, c))

\* the static scanners captured with
CapStatics == {"Word", "Wordish", "Space", "Everything"}

\* the runtime scanners captured with: a static scanner, wrapped or not
CapScanners ==
    {ScanA(S) : S \in CapStatics}
    \cup UNION {Wrappers(ScanA(S)) : S \in CapStatics}

CapInit ==
    /\ \E inp \in Strings(CapChars, MaxCapLen), Space \in SpacePolicies :
          input = StrCursor_new(inp, "ExactCompare", Space, "Wordish")
    /\ rules \in {Let(S) : S \in CapStatics} \cup {LetRuntime(sc) : sc \in CapScanners}
    /\ lit_res = NoValue
    /\ pc = "cap"
    /\ ri = 1
    /\ result = NoValue
    /\ terms = <<>>
    /\ cur = input
    /\ caps = <<>>
    /\ ret = NoValue
    /\ stack = <<>>
    /\ literal = <<>>
    /\ ops = <<>>
    /\ rets = <<>>
    /\ bodies = <<>>
    /\ rep_done = NoValue

\* match try_scan_..(cur) { Ok((name, new_cur)) => .., Err((err, _)) => Err(err) }
\* r is what the dispatch returned
Captured(r) ==
    /\ lit_res' = r
    /\ IF r.tag = "Ok"
       THEN /\ caps' = <<r.out>>
            /\ cur' = r.cur
            /\ ret' = ret
            /\ pc' = "captured"
       ELSE /\ ret' = [tag |-> "Err", err |-> r.err]
            /\ pc' = "failed"
            /\ UNCHANGED <<caps, cur>>
    /\ UNCHANGED <<input, rules, ri, result, terms, stack, literal, ops,
                   rets, bodies, rep_done>>

\* let name: T
CaptureStatic ==
    /\ pc = "cap"
    /\ rules.t = "let"
    /\ Captured(try_scan_static(cur, rules.scanner))

\* let name <| scanner
CaptureRuntime ==
    /\ pc = "cap"
    /\ rules.t = "let_rt"
    /\ Captured(try_scan_runtime(cur, rules.scanner))

CapNext == CaptureStatic \/ CaptureRuntime

CapSpec == CapInit /\ [][CapNext]_vars

(***************************************************************************)
(* Properties of scan!.                                                    *)
(***************************************************************************)
\* C1: the rules are tried in declaration order and the first rule whose
\* pattern matches determines the result: every rule before it failed, and
\* no cursor operation and no body of a later rule is ever evaluated, also
\* when a later rule would match as well.
C1_FirstMatchWins ==
    /\ \A j \in DOMAIN rets : rets[j].rule = j
    /\ \A i \in DOMAIN ops : \A j \in DOMAIN ops :
           i <= j => ops[i].rule <= ops[j].rule
    /\ result.tag = "Ok" =>
           /\ rets # <<>>
           /\ result = rets[Len(rets)].val
           /\ result.rule = Len(rets)
           /\ \A j \in 1 .. Len(rets) - 1 : rets[j].val.tag = "Err"
           /\ \A i \in DOMAIN ops : ops[i].rule <= result.rule
           /\ \A i \in DOMAIN bodies : bodies[i] = result.rule

\* scan! is over with the value of the first of two identical rules
C1_Witness ==
    /\ pc = "done"
    /\ Len(rules) = 2
    /\ rules[2] = rules[1]
    /\ rules[1] # <<>>
    /\ result.tag = "Ok"
    /\ result.rule = 1

\* C2: when every rule fails, scan! returns the error that got furthest
\* into the input: one of the rules' errors, at the greatest offset among
\* them, whatever the order the rules are written in.
C2_FurthestError ==
    result.tag = "Err" =>
        /\ rets # <<>>
        /\ pc = "done" => Len(rets) = Len(rules)
        /\ \A j \in DOMAIN rets :
               /\ rets[j].val.tag = "Err"
               /\ result.err.at >= rets[j].val.err.at
        /\ \E j \in DOMAIN rets : result.err = rets[j].val.err

\* every rule failed, and the rule that got furthest is not the last one
C2_Witness ==
    /\ pc = "done"
    /\ result.tag = "Err"
    /\ Len(rules) >= 2
    /\ rets[1].val.err.at > rets[Len(rets)].val.err.at

(***************************************************************************)
(* Properties of the repetition block.  They are stated for repetitions    *)
(* whose element and separator are sequences of literals and value         *)
(* captures, which are matched here term by term, without the loop.        *)
(***************************************************************************)
IsFlat(pat) == \A i \in DOMAIN pat : pat[i].t \in {"lit", "let"}

RECURSIVE MatchSeq(_, _)
\* the terms of pat scanned one after the other from cursor c
MatchSeq(c, pat) ==
    IF pat = <<>> THEN [tag |-> "Ok", cur |-> c]
    ELSE LET r == IF Head(pat).t = "lit"
                  THEN try_match_literal(c, Head(pat).lit)
                  ELSE try_scan_static(c, Head(pat).scanner)
         IN  IF r.tag = "Ok" THEN MatchSeq(r.cur, Tail(pat)) ELSE r

RECURSIVE Elems(_, _, _, _, _)
\* the elements the input at c starts with, the separator between each two
\* of them, counted from n up to at most cap: how many, and the cursor after
\* the last one
Elems(c, pat, sep, n, cap) ==
    IF n = cap THEN [k |-> n, cur |-> c]
    ELSE LET s == IF n = 0 THEN [tag |-> "Ok", cur |-> c] ELSE MatchSeq(c, sep)
             e == IF s.tag = "Ok" THEN MatchSeq(s.cur, pat) ELSE s
         IN  IF e.tag = "Ok" THEN Elems(e.cur, pat, sep, n + 1, cap)
                             ELSE [k |-> n, cur |-> c]

\* k, the number of elements the input supplies to the repetition block
\* that finished last, and the cursor after the k-th
RepAvail ==
    Elems(rep_done.f.start, rep_done.f.pat, rep_done.f.sep, 0,
          str_len(rep_done.f.start.slice) + 1)

\* a repetition block of literals and value captures has finished
RepFlat ==
    /\ rep_done.tag = "Some"
    /\ IsFlat(rep_done.f.pat)
    /\ IsFlat(rep_done.f.sep)

\* the block went on to the terms that follow the repetition
RepSucceeded == rep_done.pc = "scan"

\* the block evaluated to an error
RepErr == rep_done.pc = "ret" /\ rep_done.ret.tag = "Err"

\* the input supplies fewer than max elements
BelowMax(k) == rep_done.f.max = None \/ k < rep_done.f.max[1]

\* C3: repetition is greedy and bounded: a successful repetition matched
\* exactly n = min(max, k) elements, k being the number of elements the
\* input supplies, with min <= n, and the terms after the repetition are
\* scanned from the cursor right after the n-th element.
C3_GreedyBounded ==
    (RepFlat /\ RepSucceeded) =>
        LET f == rep_done.f
            k == RepAvail.k
            n == IF f.max # None /\ f.max[1] < k THEN f.max[1] ELSE k
        IN  /\ f.repeats = n
            /\ f.min <= n
            /\ Len(f.col_pat) = n
            /\ rep_done.cur = Elems(f.start, f.pat, f.sep, 0, n).cur
            /\ rep_done.terms = f.tail

\* a repetition stopped by max although the input supplies more elements
C3_Witness ==
    /\ RepFlat
    /\ RepSucceeded
    /\ rep_done.f.max # None
    /\ rep_done.f.max[1] >= 1
    /\ rep_done.f.max[1] < RepAvail.k
    /\ rep_done.f.repeats = rep_done.f.max[1]

\* max allows for more elements than the k >= 1 the input supplies, and the
\* separator matches after the k-th
RepDangling ==
    /\ RepFlat
    /\ rep_done.f.sep # <<>>
    /\ LET a == RepAvail
       IN  /\ a.k >= 1
           /\ BelowMax(a.k)
           /\ MatchSeq(a.cur, rep_done.f.sep).tag = "Ok"

\* C4: in a separator-delimited repetition, a separator that is matched
\* after at least one element and is not followed by an element makes the
\* repetition fail, and with it the rule, whatever min is.
C4_DanglingSeparator ==
    RepDangling =>
        /\ RepErr
        /\ (rep_done.depth = 0 /\ rep_done.rule <= Len(rets)) =>
               rets[rep_done.rule].val = rep_done.ret

\* a dangling separator after as many elements as min asks for; the rule
\* has failed
C4_Witness ==
    /\ RepDangling
    /\ rep_done.f.min <= rep_done.f.repeats
    /\ rep_done.depth = 0
    /\ pc = "done"
    /\ Len(rules) = 1
    /\ result.tag = "Err"

\* max allows for more elements than the k >= min, k >= 1 the input
\* supplies, and the separator does not match after the k-th
RepSepFails ==
    /\ RepFlat
    /\ rep_done.f.sep # <<>>
    /\ LET a == RepAvail
       IN  /\ a.k >= 1
           /\ a.k >= rep_done.f.min
           /\ BelowMax(a.k)
           /\ MatchSeq(a.cur, rep_done.f.sep).tag = "Err"

\* C5: when the separator fails to match after n >= min elements (n >= 1),
\* the repetition succeeds with those n elements and the terms after it are
\* scanned from the cursor right after the last element: nothing of the
\* failed separator attempt is consumed.
C5_SeparatorStops ==
    RepSepFails =>
        LET a == RepAvail
        IN  /\ RepSucceeded
            /\ rep_done.f.repeats = a.k
            /\ Len(rep_done.f.col_pat) = a.k
            /\ Len(rep_done.f.col_sep) = a.k - 1
            /\ rep_done.cur = a.cur
            /\ rep_done.terms = rep_done.f.tail

\* the separator failed on input that starts with white space, which its
\* attempt skipped; the repetition is followed by something
C5_Witness ==
    /\ RepSepFails
    /\ RepSucceeded
    /\ rep_done.cur.slice # <<>>
    /\ is_whitespace(Head(rep_done.cur.slice))
    /\ rep_done.terms # <<>>

\* the attempt at the separator after the k elements the input supplies
SepAttempt(a) ==
    IF rep_done.f.sep # <<>> /\ a.k > 0 THEN MatchSeq(a.cur, rep_done.f.sep)
                                         ELSE [tag |-> "Ok", cur |-> a.cur]

\* C6: when the loop ends with fewer than min elements, the repetition fails
\* with the last error recorded in the loop (break_err): the error of the
\* failed attempt at the repeated sub-pattern, or the separator's error when
\* the loop stopped because the separator failed.
C6_TooFewElements ==
    (RepFlat /\ rep_done.f.repeats < rep_done.f.min) =>
        LET f == rep_done.f
            a == RepAvail
            s == SepAttempt(a)
            e == IF s.tag = "Ok" THEN MatchSeq(s.cur, f.pat) ELSE s
        IN  /\ RepErr
            /\ f.repeats = a.k
            /\ e.tag = "Err"
            /\ rep_done.ret.err = e.err
            /\ f.break_err = Some(rep_done.ret.err)

\* C6, as the specification words it: with fewer than min elements the
\* repetition fails with the error of a failed attempt at the repeated
\* sub-pattern, also when the loop stopped because the separator failed.
C6_AsStated ==
    (RepFlat /\ rep_done.f.repeats < rep_done.f.min) =>
        LET f == rep_done.f
            a == RepAvail
            s == SepAttempt(a)
            e == MatchSeq(IF s.tag = "Ok" THEN s.cur ELSE a.cur, f.pat)
        IN  /\ RepErr
            /\ e.tag = "Err"
            /\ rep_done.ret.err = e.err

\* too few elements, and the loop stopped because the separator failed
C6_Witness ==
    /\ RepFlat
    /\ rep_done.f.repeats < rep_done.f.min
    /\ RepErr
    /\ rep_done.f.repeats >= 1
    /\ rep_done.f.sep # <<>>
    /\ LET s == SepAttempt(RepAvail)
       IN  s.tag = "Err" /\ rep_done.ret.err = s.err

(***************************************************************************)
(* Properties of the end of a rule.                                        *)
(***************************************************************************)
\* the pattern ends in neither a tail capture nor an anchor capture
EndsPlain(pat) ==
    pat = <<>> \/ pat[Len(pat)].t \notin {"tail", "anchor"}

\* what the end-of-input check accepts as remaining input
AcceptedRest(c) ==
    IF c.Space = "IgnoreSpace"
    THEN \A i \in DOMAIN c.slice : c.slice[i] \in WhiteSpaceChars
    ELSE c.slice = <<>>

\* the end-of-input checks made for rule j
EndOps(j) == {i \in DOMAIN ops : ops[i].rule = j /\ ops[i].op = "try_end"}

\* C7: a rule whose pattern ends in neither a tail capture nor an anchor
\* capture succeeds only if, after its last term, nothing but what the
\* whitespace policy skips remains: white space under IgnoreSpace, nothing
\* under ExactSpace and FuzzySpace.  Otherwise the rule fails with
\* ExpectedEnd and its body is not evaluated.
C7_EndOfInput ==
    \A j \in DOMAIN rets :
        EndsPlain(rules[j]) =>
            /\ rets[j].val.tag = "Ok" =>
                   /\ EndOps(j) # {}
                   /\ j \in {bodies[b] : b \in DOMAIN bodies}
            /\ \A i \in EndOps(j) :
                   IF AcceptedRest(ops[i].cur)
                   THEN /\ rets[j].val.tag = "Ok"
                        /\ rets[j].val.after = ops[i].cur
                   ELSE /\ rets[j].val.tag = "Err"
                        /\ rets[j].val.err.kind = "ExpectedEnd"
                        /\ j \notin {bodies[b] : b \in DOMAIN bodies}

\* under ExactSpace or FuzzySpace a rule matched all its terms, only white
\* space remained, and the rule failed with ExpectedEnd
C7_Witness ==
    /\ pc = "done"
    /\ input.Space # "IgnoreSpace"
    /\ Len(rules) = 1
    /\ rules[1] # <<>>
    /\ EndsPlain(rules[1])
    /\ \E i \in EndOps(1) :
           /\ ops[i].cur.slice # <<>>
           /\ \A k \in DOMAIN ops[i].cur.slice :
                  ops[i].cur.slice[k] \in WhiteSpaceChars
    /\ result.tag = "Err"
    /\ result.err.kind = "ExpectedEnd"
    /\ bodies = <<>>

(***************************************************************************)
(* Properties of try_match_literal.                                        *)
(***************************************************************************)
\* s without its white space
Strip(s) == SelectSeq(s, LAMBDA c : c \notin WhiteSpaceChars)

RECURSIVE Tokens(_, _)
\* the words of s, as the word slicer W cuts them; white space separates
Tokens(W, s) ==
    IF s = <<>> THEN <<>>
    ELSE IF Head(s) \in WhiteSpaceChars THEN Tokens(W, Tail(s))
    ELSE LET b == slice_word(W, s)[1]
         IN  <<slice_to(s, b)>> \o Tokens(W, slice_from(s, b))

\* the words of the literal are, in order, the first words of the input
TokensMatch ==
    LET ti == Tokens(input.Word, input.slice)
        tl == Tokens(input.Word, literal)
    IN  /\ Len(tl) <= Len(ti)
        /\ \A i \in DOMAIN tl : compare(input.Cmp, ti[i], tl[i])

\* the bytes of the input the returned cursor has gone past
Consumed == lit_res.cur.offset - input.offset

\* C8: try_match_literal succeeds as soon as the literal is used up and never
\* asks for the input to be used up: the returned cursor stands exactly past
\* the matched extent (skipped white space and matched words, nothing after
\* the last matched word unless the literal ends in white space) and holds
\* the rest of the input unchanged; under IgnoreSpace it succeeds exactly
\* when the literal's words are the first words of the input.
C8_LiteralLeavesRest ==
    /\ lit_res.tag = "Ok" =>
           LET P == slice_to(input.slice, Consumed)
           IN  /\ Consumed \in 0 .. str_len(input.slice)
               /\ lit_res.cur.slice = slice_from(input.slice, Consumed)
               /\ P \o lit_res.cur.slice = input.slice
               /\ compare(input.Cmp, Strip(P), Strip(literal))
               /\ (literal # <<>> /\ literal[Len(literal)] \notin WhiteSpaceChars) =>
                      (P # <<>> /\ P[Len(P)] \notin WhiteSpaceChars)
    /\ (pc = "done" /\ input.Space = "IgnoreSpace" /\ lit_res.tag # "Panic") =>
           (lit_res.tag = "Ok" <=> TokensMatch)

\* a literal of two words matched, white space skipped, and input is left
C8_Witness ==
    /\ lit_res.tag = "Ok"
    /\ Len(Tokens(input.Word, literal)) = 2
    /\ Consumed > str_len(literal)
    /\ lit_res.cur.slice # <<>>
    /\ lit_res.cur.slice[1] \notin WhiteSpaceChars

RECURSIVE Join(_)
\* the words of ts with one space between each two
Join(ts) ==
    IF ts = <<>> THEN <<>>
    ELSE IF Len(ts) = 1 THEN ts[1]
    ELSE ts[1] \o <<"SP">> \o Join(Tail(ts))

\* the same words, with single spaces for the white space between them
Normal(s) == Join(Tokens(input.Word, s))

\* C9: under IgnoreSpace the outcome of matching a literal depends only on
\* the words of the input and of the literal, not on the amount or kind of
\* white space between them; under ExactSpace a literal is matched only by
\* input whose white space equals the literal's character for character.
C9_SpacePolicies ==
    /\ (pc = "done" /\ input.Space = "IgnoreSpace") =>
           lit_res.tag =
               try_match_literal([input EXCEPT !.slice = Normal(input.slice)],
                                 Normal(literal)).tag
    /\ (input.Space = "ExactSpace" /\ lit_res.tag = "Ok") =>
           LET P == slice_to(input.slice, Consumed)
           IN  /\ Len(P) = Len(literal)
               /\ \A i \in DOMAIN P :
                      (P[i] \in WhiteSpaceChars \/ literal[i] \in WhiteSpaceChars)
                          => P[i] = literal[i]

\* under IgnoreSpace a literal with a space between two words matched input
\* with other white space between them, which ExactSpace rejects although
\* it accepts the same words with the literal's white space
C9_Witness ==
    /\ input.Space = "IgnoreSpace"
    /\ lit_res.tag = "Ok"
    /\ Len(literal) = 3
    /\ literal[2] = "SP"
    /\ Len(Tokens(input.Word, literal)) = 2
    /\ input.slice # literal
    /\ \E i \in DOMAIN input.slice : input.slice[i] = "TAB"
    /\ try_match_literal([input EXCEPT !.Space = "ExactSpace"], literal).tag = "Err"
    /\ try_match_literal([input EXCEPT !.Space = "ExactSpace", !.slice = literal],
                         literal).tag = "Ok"

\* the input is the literal with the case of at least one letter changed
DiffersInCaseOnly ==
    /\ pc = "done"
    /\ input.slice # literal
    /\ Len(input.slice) = Len(literal)
    /\ \A i \in DOMAIN literal :
           to_lowercase(input.slice[i]) = to_lowercase(literal[i])

\* the letters whose case differs are ASCII letters
DiffersInAsciiOnly ==
    \A i \in DOMAIN literal :
        input.slice[i] # literal[i] =>
            (input.slice[i] \notin TwoByteChars /\ literal[i] \notin TwoByteChars)

\* C10, as the specification words it: a literal that differs from the input
\* only in letter case fails with LiteralMismatch under ExactCompare and
\* matches under IgnoreCase and under IgnoreAsciiCase.
C10_AsStated ==
    DiffersInCaseOnly =>
        IF input.Cmp = "ExactCompare"
        THEN lit_res.tag = "Err" /\ lit_res.err.kind = "LiteralMismatch"
        ELSE lit_res.tag = "Ok"

\* C10: literal words are compared under the cursor's comparison policy: a
\* literal that differs from the input only in letter case fails with
\* LiteralMismatch under ExactCompare, matches under IgnoreCase, and matches
\* under IgnoreAsciiCase when the letters that differ are ASCII letters,
\* failing with LiteralMismatch otherwise.
C10_CasePolicies ==
    DiffersInCaseOnly =>
        CASE input.Cmp = "ExactCompare" ->
                 lit_res.tag = "Err" /\ lit_res.err.kind = "LiteralMismatch"
          [] input.Cmp = "IgnoreCase" -> lit_res.tag = "Ok"
          [] input.Cmp = "IgnoreAsciiCase" ->
                 IF DiffersInAsciiOnly THEN lit_res.tag = "Ok"
                 ELSE lit_res.tag = "Err" /\ lit_res.err.kind = "LiteralMismatch"

\* under IgnoreAsciiCase a literal of several letters matched input that
\* differs from it in the case of an ASCII letter
C10_Witness ==
    /\ DiffersInCaseOnly
    /\ DiffersInAsciiOnly
    /\ input.Cmp = "IgnoreAsciiCase"
    /\ Len(literal) >= 2
    /\ lit_res.tag = "Ok"
    /\ Consumed = str_len(input.slice)

(***************************************************************************)
(* Properties of the cursor operations.                                    *)
(***************************************************************************)
\* the call the caller is looking at, when its operation is `name`
Called(name) == pc = "called" /\ ops # <<>> /\ ops[1].op = name

RECURSIVE TokenStarts(_, _, _)
\* the byte offsets at which the words of s start, s standing at offset at
TokenStarts(W, s, at) ==
    IF s = <<>> THEN <<>>
    ELSE IF Head(s) \in WhiteSpaceChars
    THEN TokenStarts(W, Tail(s), at + len_utf8(Head(s)))
    ELSE LET b == slice_word(W, s)[1]
         IN  <<at>> \o TokenStarts(W, slice_from(s, b), at + b)

\* the offset of the first word of the cursor c that is not the literal's
\* word at the same place, the end of the input when c has too few words
FirstDisagreeingWord(c, lit) ==
    LET ti == Tokens(c.Word, c.slice)
        tl == Tokens(c.Word, lit)
        st == TokenStarts(c.Word, c.slice, c.offset)
        bad == {i \in DOMAIN tl : i > Len(ti) \/ ~compare(c.Cmp, ti[i], tl[i])}
        i == CHOOSE j \in bad : \A k \in bad : j <= k
    IN  IF i > Len(ti) THEN c.offset + str_len(c.slice) ELSE st[i]

\* the byte offset p of the input is where a word or a run of white space
\* of the cursor c starts, or the end of the input
AtTokenStart(c, p) ==
    LET st == TokenStarts(c.Word, c.slice, c.offset)
        q == p - c.offset
    IN  \/ q = str_len(c.slice)
        \/ p \in {st[i] : i \in DOMAIN st}
        \/ /\ slice_from(c.slice, q)[1] \in WhiteSpaceChars
           /\ \/ q = 0
              \/ slice_to(c.slice, q)[Len(slice_to(c.slice, q))]
                     \notin WhiteSpaceChars

HasSpace(s) == \E i \in DOMAIN s : s[i] \in WhiteSpaceChars

RECURSIVE LeadingSpace(_)
\* the bytes of the white space s starts with
LeadingSpace(s) ==
    IF s = <<>> \/ Head(s) \notin WhiteSpaceChars THEN 0
    ELSE len_utf8(Head(s)) + LeadingSpace(Tail(s))

\* the bytes of white space a cursor skips before a scanner or the end of
\* the input: all of it under IgnoreSpace, none under the other policies
Skipped(c) == IF c.Space = "IgnoreSpace" THEN LeadingSpace(c.slice) ELSE 0

\* what the scanner of the call answers for the input past the white space
\* the cursor skips
Scanned == scan_from(ops[1].scanner,
                     advance_by(ops[1].cur, Skipped(ops[1].cur)))

\* C12, as the specification words it: try_scan skips the leading white
\* space the policy of the cursor skips and runs the scanner on the rest;
\* on success the new cursor stands at old offset + skipped bytes + consumed
\* bytes, on failure the error is reported at old offset + skipped bytes,
\* the position after the skipped white space.
C12_AsStated ==
    Called("try_scan") =>
        LET c == ops[1].cur
        IN  /\ lit_res.tag = "Ok" =>
                   lit_res.cur.offset = c.offset + Skipped(c) + Scanned.off
            /\ lit_res.tag = "Err" =>
                   lit_res.err.at = c.offset + Skipped(c)

\* C12: try_scan skips the leading white space the policy of the cursor
\* skips and runs the scanner on the rest: when the scanner succeeds the
\* new cursor stands at old offset + skipped bytes + consumed bytes and
\* holds the input from there on (for Word the consumed bytes are those of
\* the word the rest starts with); when it fails the error is reported at
\* old offset + skipped bytes + the offset of the scanner's own error,
\* which is 0 for a scanner that fails on the spot, as Word does.
C12_TryScanOffsets ==
    Called("try_scan") =>
        LET c == ops[1].cur
            rest == slice_from(c.slice, Skipped(c))
        IN  /\ lit_res.tag = "Ok" =>
                   /\ Scanned.tag = "Ok"
                   /\ lit_res.cur.offset = c.offset + Skipped(c) + Scanned.off
                   /\ lit_res.cur.slice
                          = slice_from(c.slice, Skipped(c) + Scanned.off)
                   /\ ops[1].scanner = "Word" =>
                          /\ lit_res.out # <<>>
                          /\ lit_res.out = slice_to(rest, Scanned.off)
            /\ lit_res.tag = "Err" =>
                   /\ Scanned.tag = "Err"
                   /\ lit_res.err.at = c.offset + Skipped(c) + Scanned.err.at
                   /\ ops[1].scanner = "Word" =>
                          /\ lit_res.err.at = c.offset + Skipped(c)
                          /\ rest = <<>> \/ rest[1] \notin PERLW
            /\ lit_res.tag \in {"Ok", "Err"}

\* white space is skipped and the scanner fails past the place it started at
C12_Witness ==
    /\ Called("try_scan")
    /\ lit_res.tag = "Err"
    /\ Skipped(ops[1].cur) > 0
    /\ lit_res.err.at > ops[1].cur.offset + Skipped(ops[1].cur)

\* C13: a cursor operation that fails (try_end, try_scan, try_scan_raw,
\* try_match_literal) returns with the error the cursor it was called with:
\* same offset and same slice, no white space skipped and nothing of a
\* partial match consumed.
C13_FailureKeepsCursor ==
    (pc = "called" /\ lit_res.tag = "Err") =>
        /\ ops[1].op \in {"try_end", "try_scan", "try_scan_raw",
                           "try_match_literal"}
        /\ lit_res.cur = ops[1].cur
        /\ lit_res.cur.offset = cur.offset
        /\ lit_res.cur.slice = cur.slice

\* a literal fails after white space was skipped and its first word was
\* matched, on a cursor that has moved
C13_Witness ==
    /\ Called("try_match_literal")
    /\ lit_res.tag = "Err"
    /\ ops[1].cur.offset > 0
    /\ ops[1].cur.Space = "IgnoreSpace"
    /\ Skipped(ops[1].cur) > 0
    /\ LET st == TokenStarts(input.Word, ops[1].cur.slice, ops[1].cur.offset)
       IN  st # <<>> /\ lit_res.err.at > st[1]

(***************************************************************************)
(* Properties of scan!, continued.                                         *)
(***************************************************************************)
\* no term of the rule ri has been evaluated yet
RuleStarts == pc = "scan" /\ stack = <<>> /\ terms = rules[ri] /\ caps = <<>>

\* C14: every rule of scan! is evaluated from a copy of the cursor of the
\* input: whatever the rules before it consumed before they failed, a rule
\* starts at the offset and with the remaining input the first rule started
\* with, and the first cursor operation of every rule is called on it.
C14_RulesStartAfresh ==
    /\ RuleStarts => (cur = input /\ cur.offset = 0)
    /\ \A i \in DOMAIN ops :
           (i = 1 \/ ops[i - 1].rule # ops[i].rule) => ops[i].cur = input

\* the first rule consumed input and failed, and the second rule has made
\* its first call
C14_Witness ==
    /\ rets # <<>>
    /\ rets[1].val.tag = "Err"
    /\ \E i \in DOMAIN ops :
           /\ ops[i].rule = 1
           /\ ops[i].op # "try_end"
           /\ ops[i].res.tag = "Ok"
           /\ ops[i].res.cur.offset > 0
    /\ \E j \in DOMAIN ops : ops[j].rule = 2

(***************************************************************************)
(* Properties of the cursor operations, continued.                         *)
(***************************************************************************)
\* where in the text r the scanner S fails, as a byte offset from the start
\* of r: Word fails on the spot; the rules of RangeTo fail where scan! on r
\* as an input of its own reports it; ScanRegex fails on the spot when
\* nothing matches and otherwise where its inner scanner fails in the
\* group it was given, which starts after the first ","
FailsAt(S, c, r) ==
    CASE S \in {"Word", "Tail"} -> 0
      [] S = "RangeTo" ->
             RangeTo_scan_from(StrCursor_new(r, c.Cmp, c.Space, c.Word)).err.at
      [] S = "Regex" ->
             IF find(r, {","}) = None THEN 0 ELSE find(r, {","})[1] + 1

\* C15: the offset of the error of a failed scan is counted from the start
\* of the cursor's original input, also when a nested scanner raised it on
\* a new cursor (to_cursor) or on a part of what it was given
\* (from_subslice): it is the offset, in the original input, of the place
\* at which the scanner that raised it failed.
C15_OffsetsOfOriginalInput ==
    (pc = "called" /\ ops[1].op \in {"try_scan", "try_scan_raw"}
                  /\ lit_res.tag = "Err") =>
        LET c == ops[1].cur
            skip == IF ops[1].op = "try_scan" THEN Skipped(c) ELSE 0
        IN  lit_res.err.at
                = c.offset + skip
                  + FailsAt(ops[1].scanner, c, slice_from(c.slice, skip))

\* C16, as the specification words it: when try_end fails because input
\* remains, ExpectedEnd is reported at the cursor's offset plus the bytes of
\* leading white space the policy skips.
C16_AsStated ==
    (Called("try_end") /\ lit_res.tag = "Err") =>
        /\ lit_res.err.kind = "ExpectedEnd"
        /\ lit_res.err.at = ops[1].cur.offset + Skipped(ops[1].cur)

\* C16: try_end fails exactly when input remains past the leading white
\* space the policy skips, and then reports ExpectedEnd at the offset of
\* the cursor it was called with, which is before the skipped white space.
C16_ExpectedEndOffset ==
    Called("try_end") =>
        LET c == ops[1].cur
        IN  /\ lit_res.tag = "Err" <=> slice_from(c.slice, Skipped(c)) # <<>>
            /\ lit_res.tag = "Err" =>
                   /\ lit_res.err.kind = "ExpectedEnd"
                   /\ lit_res.err.at = c.offset

\* try_end fails on a cursor that has moved and has white space to skip
\* before the input that remains
C16_Witness ==
    /\ Called("try_end")
    /\ lit_res.tag = "Err"
    /\ ops[1].cur.offset > 0
    /\ Skipped(ops[1].cur) > 0

\* a literal of white space and nothing else
PureSpace(lit) == lit # <<>> /\ \A i \in DOMAIN lit : lit[i] \in WhiteSpaceChars

\* try_match_literal was called with `literal` and has answered or panicked
LiteralTried == pc \in {"called", "panic"} /\ lit_res # NoValue

RECURSIVE CommonPrefix(_, _)
\* the bytes of the longest common prefix of s and t
CommonPrefix(s, t) ==
    IF s = <<>> \/ t = <<>> \/ Head(s) # Head(t) THEN 0
    ELSE len_utf8(Head(s)) + CommonPrefix(Tail(s), Tail(t))

\* C17, as the specification words it: a literal of white space only is
\* rejected with a panic and never matches or gives a ScanError.
C17_AsStated ==
    (LiteralTried /\ PureSpace(literal)) => lit_res.tag = "Panic"

\* C17: a literal of white space only is matched like any other literal.
\* Under IgnoreSpace it always matches and the cursor moves past the white
\* space the input starts with; under FuzzySpace it matches when the input
\* starts with white space (all of which is consumed) and fails with
\* LiteralMismatch at the cursor otherwise; under ExactSpace it matches when
\* the input starts with the literal, fails with LiteralMismatch at the
\* first white space character of the input that differs from the
\* literal's, and, when the input ends or goes on with another character
\* before the literal is used up, panics with the NonSpace word slicer and
\* fails with LiteralMismatch at that place with Wordish.  Nothing else
\* about such a literal panics.
C17_PureSpaceLiteral ==
    (LiteralTried /\ PureSpace(literal)) =>
        LET lead == LeadingSpace(cur.slice)
            n == CommonPrefix(cur.slice, literal)
            rest == slice_from(cur.slice, n)
            MismatchAt(at) == /\ lit_res.tag = "Err"
                              /\ lit_res.err.kind = "LiteralMismatch"
                              /\ lit_res.err.at = cur.offset + at
            MatchedTo(k) == /\ lit_res.tag = "Ok"
                            /\ lit_res.cur.offset = cur.offset + k
        IN  CASE cur.Space = "IgnoreSpace" -> MatchedTo(lead)
              [] cur.Space = "FuzzySpace" ->
                     IF lead > 0 THEN MatchedTo(lead) ELSE MismatchAt(0)
              [] cur.Space = "ExactSpace" ->
                     IF n = str_len(literal) THEN MatchedTo(n)
                     ELSE IF rest # <<>> /\ rest[1] \in WhiteSpaceChars
                     THEN MismatchAt(n)
                     ELSE IF cur.Word = "NonSpace" THEN lit_res.tag = "Panic"
                     ELSE MismatchAt(n)

\* a literal of white space matched under ExactSpace, on a cursor that has
\* moved, and input is left
C17_Witness ==
    /\ LiteralTried
    /\ PureSpace(literal)
    /\ lit_res.tag = "Ok"
    /\ cur.Space = "ExactSpace"
    /\ cur.offset > 0
    /\ lit_res.cur.slice # <<>>

(***************************************************************************)
(* Properties of the repetition block, continued.                          *)
(***************************************************************************)
\* the bounds {min, max} with min above max
BadBounds(min, max) == max # None /\ min > max[1]

\* the rule r has, among its own terms, a repetition with such bounds
Misconfigured(r) ==
    \E j \in DOMAIN r : r[j].t = "rep" /\ BadBounds(r[j].min, r[j].max)

\* C18, as the specification words it: a rule with a repetition whose min
\* exceeds its max is rejected before any of its terms is evaluated,
\* whatever the input: no cursor operation is made for it and it never
\* returns a result, and scan! does not end with such a rule among its
\* rules.
C18_AsStated ==
    /\ \A i \in DOMAIN ops : ~Misconfigured(rules[ops[i].rule])
    /\ \A i \in DOMAIN rets : ~Misconfigured(rules[rets[i].rule])
    /\ pc = "done" => \A i \in DOMAIN rules : ~Misconfigured(rules[i])

\* C18: a repetition whose min exceeds its max panics when the evaluation
\* of its rule reaches it, before its loop is entered and whatever input is
\* left there: scan! panics for no other reason, no block with such bounds
\* is ever entered or finished, and a rule that has one among its terms
\* returns only the ScanError of a term before it, never a value and never
\* an error of the repetition.
C18_MinExceedsMax ==
    /\ pc = "panic" =>
           /\ terms # <<>>
           /\ Head(terms).t = "rep"
           /\ BadBounds(Head(terms).min, Head(terms).max)
    /\ \A i \in DOMAIN stack : ~BadBounds(stack[i].min, stack[i].max)
    /\ rep_done.tag = "Some" => ~BadBounds(rep_done.f.min, rep_done.f.max)
    /\ \A i \in DOMAIN rets :
           Misconfigured(rules[rets[i].rule]) =>
               /\ rets[i].val.tag = "Err"
               /\ \E j \in DOMAIN ops :
                      /\ ops[j].rule = rets[i].rule
                      /\ ops[j].res.tag = "Err"
                      /\ ops[j].res.err = rets[i].val.err

\* the second rule panics at its repetition after its first term was
\* evaluated, the first rule having failed
C18_Witness ==
    /\ pc = "panic"
    /\ ri = 2
    /\ Len(terms) < Len(rules[ri])
    /\ ops # <<>>
    /\ ops[Len(ops)].rule = 2
    /\ ops[Len(ops)].res.tag = "Ok"

\* scan! has returned or panicked
Terminated == pc \in {"done", "panic"}

RECURSIVE Consumes(_)
\* every successful match of the pattern pat consumes a byte or more: one
\* of its terms is a literal with a word in it, a Word, or a repetition of
\* at least one element that consumes
Consumes(pat) ==
    \E j \in DOMAIN pat :
        CASE pat[j].t = "lit" -> Strip(pat[j].lit) # <<>>
          [] pat[j].t = "let" -> pat[j].scanner = "Word"
          [] pat[j].t = "rep" -> pat[j].min >= 1 /\ Consumes(pat[j].pat)
          [] OTHER -> FALSE

RECURSIVE Guarded(_)
\* every repetition of the pattern pat, at any depth, has a finite max or
\* a repeated pattern that consumes
Guarded(pat) ==
    \A j \in DOMAIN pat :
        pat[j].t = "rep" =>
            /\ pat[j].max # None \/ Consumes(pat[j].pat)
            /\ Guarded(pat[j].pat)
            /\ Guarded(pat[j].sep)

\* the loop has counted MaxRepeats elements and goes on
RunsOn == pc = "loop" /\ Top.repeats = MaxRepeats

\* C19: the evaluation of a repetition ends on every input when its max is
\* finite or every successful match of its repeated pattern consumes a byte
\* or more, so scan! returns (or panics) when all the repetitions of its
\* rules are such; a loop that runs on has no max and has just matched its
\* repeated pattern, and its separator if it has one, without consuming
\* anything.
C19_RepetitionTerminates ==
    /\ (\A i \in DOMAIN rules : Guarded(rules[i])) => <>Terminated
    /\ [](RunsOn => /\ Top.max = None
                     /\ ~Consumes(Top.pat)
                     /\ Top.cur = Top.last_from)
    /\ <>(Terminated \/ RunsOn)

\* a loop with no max has matched an empty pattern over and over, after
\* the literal before it consumed input
C19_Witness ==
    /\ RunsOn
    /\ Top.max = None
    /\ Top.cur.offset > 0
    /\ Top.start = Top.cur

(***************************************************************************)
(* The cursor and the input it came from.                                  *)
(***************************************************************************)
\* the slice of the cursor c is what the input holds from the byte c.offset on
SuffixOfInput(c) ==
    /\ c.slice = slice_from(input.slice, c.offset)
    /\ c.offset + str_len(c.slice) = str_len(input.slice)

\* try_scan, try_scan_raw or try_match_literal has just succeeded
Advanced ==
    /\ pc = "called"
    /\ ops[1].op \in {"try_scan", "try_scan_raw", "try_match_literal"}
    /\ lit_res.tag = "Ok"

\* C20: every cursor reached from StrCursor::new(input) by successful calls
\* of try_scan, try_scan_raw and try_match_literal holds the suffix of the
\* input that starts at its byte offset, so offset + len(slice) = len(input),
\* and the cursor a call returns has an offset no less than that of the
\* cursor it was called with.
C20_CursorIsSuffix ==
    /\ pc \in {"cur", "called"} => SuffixOfInput(cur)
    /\ Advanced => /\ ops[1].cur = cur
                   /\ SuffixOfInput(lit_res.cur)
                   /\ lit_res.cur.offset >= cur.offset

\* a call consumes input on a cursor that an earlier call had moved, and
\* leaves some of the input
C20_Witness ==
    /\ Advanced
    /\ cur.offset > 0
    /\ lit_res.cur.offset > cur.offset
    /\ lit_res.cur.slice # <<>>

(***************************************************************************)
(* Properties of the runtime scanners.                                     *)
(***************************************************************************)
\* the scanner has returned Ok
Scanned_Ok == pc = "ran" /\ lit_res.tag = "Ok"

\* C21: a runtime wrapper (ExactWidth, MaxWidth, MinWidth, ScanRegex, ScanA)
\* that succeeds on a text of L bytes reports at most L bytes consumed, the
\* scanner it wraps being one that never reports more bytes than it was
\* given (Word, Everything, or a wrapper of these).
C21_ConsumedWithinInput ==
    Scanned_Ok => /\ lit_res.off >= 0
                  /\ lit_res.off <= str_len(input.slice)

\* a regular expression around a width wrapper succeeds and leaves some of
\* the input
C21_Witness ==
    /\ Scanned_Ok
    /\ rules.k = "ScanRegex"
    /\ rules.then.k \in {"ExactWidth", "MaxWidth", "MinWidth"}
    /\ lit_res.off > 0
    /\ lit_res.off < str_len(input.slice)

\* the scanner called is exact_width(w, then) and the call is over
ExactWidthCalled == pc \in {"ran", "panic"} /\ rules.k = "ExactWidth"

\* the text has w bytes or more and its first w bytes are a string
HasPrefix(w) ==
    /\ str_len(input.slice) >= w
    /\ str_len(slice_to(input.slice, w)) = w

\* what the scanner then answers when it is offered the first w bytes of
\* the text and nothing else
OnPrefix(then, w) ==
    ScanStr_scan(then, [input EXCEPT !.slice = slice_to(input.slice, w)])

\* C22: exact_width(w, inner) succeeds exactly when the input has w bytes or
\* more and inner, offered the first w bytes and nothing else, succeeds and
\* consumes all w of them; it then reports w bytes consumed and the value of
\* inner.  It fails when the input is shorter than w and when inner consumes
\* fewer than w bytes.
C22_ExactWidth ==
    ExactWidthCalled =>
        /\ lit_res.tag = "Ok" <=>
              /\ HasPrefix(rules.w)
              /\ OnPrefix(rules.then, rules.w).tag = "Ok"
              /\ OnPrefix(rules.then, rules.w).off = rules.w
        /\ lit_res.tag = "Ok" =>
              /\ lit_res.off = rules.w
              /\ lit_res.out = OnPrefix(rules.then, rules.w).out
        /\ str_len(input.slice) < rules.w => lit_res.tag = "Err"
        /\ (/\ HasPrefix(rules.w)
            /\ OnPrefix(rules.then, rules.w).tag = "Ok"
            /\ OnPrefix(rules.then, rules.w).off < rules.w) => lit_res.tag = "Err"

\* exact_width fails on a text long enough, because the word at its start
\* is shorter than the width
C22_Witness ==
    /\ ExactWidthCalled
    /\ rules.then = ScanA("Word")
    /\ rules.w = 3
    /\ str_len(input.slice) > 3
    /\ OnPrefix(rules.then, rules.w).tag = "Ok"
    /\ OnPrefix(rules.then, rules.w).off = 2
    /\ lit_res.tag = "Err"

\* the slice of the text that the regular expression re hands on, as a
\* pair of byte offsets
Offered(re) == regex_slice(captures_of(re, input.slice)[1])

\* C23: whatever part of the input the regex scanner offers to the scanner
\* it wraps, it consumes only what that scanner consumed: the bytes before
\* the slice offered and the bytes the wrapped scanner consumed of it.
C23_ConsumesInnerPortion ==
    (Scanned_Ok /\ rules.k = "ScanRegex") =>
        lit_res.off =
            Offered(rules.re)[1]
            + ScanStr_scan(rules.then,
                  from_subslice(input, Offered(rules.re)[1],
                                Offered(rules.re)[2])).off

(***************************************************************************)
(* Properties of the value captures.                                       *)
(***************************************************************************)
\* the capture has been evaluated
CaptureDone == pc \in {"captured", "failed"}

RECURSIVE Innermost(_)
\* the static scanner at the heart of a runtime scanner
Innermost(sc) == IF sc.k = "ScanA" THEN sc.S ELSE Innermost(sc.then)

\* the scanners that capture white space are the ones that do not want
\* their input stripped
CapturesSpace(S) == S = "Space"

\* C24: a value capture runs its scanner on the input stripped of leading
\* white space (try_scan) exactly when the scanner wants leading junk stripped,
\* and on the remaining input as it stands (try_scan_raw) otherwise; a scanner
\* that captures white space is of the second kind, so it sees and captures
\* the leading white space, and a runtime wrapper decides as the scanner it
\* wraps.
C24_CaptureDispatch ==
    CaptureDone =>
        /\ rules.t = "let" =>
              lit_res = IF CapturesSpace(rules.scanner)
                        THEN try_scan_raw(input, rules.scanner)
                        ELSE try_scan(input, rules.scanner)
        /\ rules.t = "let_rt" =>
              lit_res = IF CapturesSpace(Innermost(rules.scanner))
                        THEN scanned(input, input,
                                     ScanStr_scan(rules.scanner, input))
                        ELSE scanned(input, skip_leading(input),
                                     ScanStr_scan(rules.scanner, skip_leading(input)))
        /\ (rules.t = "let" /\ rules.scanner = "Space"
               /\ LeadingSpace(input.slice) > 0) =>
              /\ pc = "captured"
              /\ caps = <<slice_to(input.slice, LeadingSpace(input.slice))>>
              /\ cur.offset = LeadingSpace(input.slice)
        /\ (rules.t = "let_rt" /\ rules.scanner.k = "MaxWidth"
               /\ rules.scanner.then = ScanA("Space") /\ rules.scanner.w > 0
               /\ LeadingSpace(input.slice) > 0) =>
              /\ pc = "captured"
              /\ caps[1] # <<>>
              /\ caps[1] = slice_to(input.slice, str_len(caps[1]))
              /\ str_len(caps[1]) <= rules.scanner.w
              /\ cur.offset = str_len(caps[1])

\* max_width around Space captures the start of the leading white space of
\* a cursor that ignores white space, and leaves the rest of it
C24_Witness ==
    /\ pc = "captured"
    /\ rules.t = "let_rt"
    /\ rules.scanner.k = "MaxWidth"
    /\ rules.scanner.then = ScanA("Space")
    /\ input.Space = "IgnoreSpace"
    /\ caps = <<<<"SP", "TAB">>>>
    /\ LeadingSpace(cur.slice) > 0

(***************************************************************************)
(* Properties of the cursor, continued.                                    *)
(***************************************************************************)
\* the literal has several words, and the first of them is the first word
\* of the cursor c
FirstWordAgrees(c, lit) ==
    LET ti == Tokens(c.Word, c.slice)
        tl == Tokens(c.Word, lit)
    IN  /\ Len(tl) >= 2
        /\ ti # <<>>
        /\ compare(c.Cmp, ti[1], tl[1])

\* C25: a literal of several words that fails on a word after its first
\* word reports LiteralMismatch at the offset the cursor had when it began
\* to match the literal, not at the offset of the word that differs.
C25_MismatchAtLiteralStart ==
    (/\ Called("try_match_literal")
     /\ lit_res.tag = "Err"
     /\ FirstWordAgrees(ops[1].cur, literal)) =>
        /\ lit_res.err.kind = "LiteralMismatch"
        /\ lit_res.err.at = ops[1].cur.offset

(***************************************************************************)
(* Properties of scan!, continued: the offsets of the errors.              *)
(***************************************************************************)
\* C26: when all the terms of a rule have matched and input other than
\* white space remains, the rule fails with ExpectedEnd at the offset at
\* which its last term ended, the offset of the cursor try_end is called
\* with: white space after the last term is not counted.
C26_ExpectedEndAtLastTerm ==
    \A j \in DOMAIN rets :
        EndsPlain(rules[j]) =>
            \A i \in EndOps(j) :
                Strip(ops[i].cur.slice) # <<>> =>
                    /\ ops[i].res.tag = "Err"
                    /\ rets[j].val = [tag |-> "Err", err |-> ops[i].res.err]
                    /\ ops[i].res.err.kind = "ExpectedEnd"
                    /\ ops[i].res.err.at = ops[i].cur.offset
                    /\ (i > 1 /\ ops[i - 1].rule = j /\ ops[i - 1].res.tag = "Ok"
                           /\ ops[i - 1].op \in {"try_match_literal", "try_scan_static"}) =>
                          ops[i].res.err.at = ops[i - 1].res.cur.offset

\* "x x" scanned by (let v: Word): the word ends at 1, the input that
\* remains starts at 2 and ExpectedEnd is reported at 1
C26_Witness ==
    /\ pc = "done"
    /\ Len(rules) = 1
    /\ rules[1] = <<Let("Word")>>
    /\ input.Space = "IgnoreSpace"
    /\ input.slice = <<"x", "SP", "x">>
    /\ result.tag = "Err"
    /\ result.err.kind = "ExpectedEnd"
    /\ result.err.at = 1

(***************************************************************************)
(* Properties of the repetitions, continued.                               *)
(***************************************************************************)
\* the number of values a repetition of n elements has in a collection of
\* its separator
SeparatorsOf(n) == IF n = 0 THEN 0 ELSE n - 1

\* the value captures of a pattern without repetitions
Captures(pat) == Len(SelectSeq(pat, LAMBDA t : t.t = "let"))

\* C27: a repetition that succeeds with n elements has pushed n - 1 values
\* to each collection of its separator (none when n = 0): the separator is
\* scanned between elements only, never before the first element and never
\* once max elements have been counted.
C27_SeparatorValues ==
    /\ \A d \in DOMAIN stack :
          LET f == stack[d]
          IN  /\ Len(f.col_pat) = f.repeats
              /\ f.sep = <<>> => f.col_sep = <<>>
              /\ f.sep # <<>> =>
                     Len(f.col_sep) \in {SeparatorsOf(f.repeats), f.repeats}
              /\ f.max # None => Len(f.col_sep) <= SeparatorsOf(f.max[1])
              /\ \A k \in DOMAIN f.col_sep : Len(f.col_sep[k]) = Captures(f.sep)
    /\ (rep_done.tag = "Some" /\ rep_done.pc = "scan" /\ rep_done.f.sep # <<>>) =>
          /\ Len(rep_done.f.col_sep) = SeparatorsOf(rep_done.f.repeats)
          /\ Len(rep_done.f.col_pat) = rep_done.f.repeats

\* a word separates two "," and the repetition, which has no max, succeeds
\* with one value of its separator
C27_Witness ==
    /\ rep_done.tag = "Some"
    /\ rep_done.pc = "scan"
    /\ rep_done.f.sep = <<Let("Word")>>
    /\ rep_done.f.max = None
    /\ rep_done.f.repeats = 2
    /\ rep_done.f.col_sep = <<<<<<"x">>>>>>

(***************************************************************************)
(* Properties of the words.                                                *)
(***************************************************************************)
\* w is a word of the text s: the longest run of word characters s starts
\* with, or the one character s starts with when it is neither a word
\* character nor white space
IsWordOf(w, s) ==
    /\ w # <<>>
    /\ w = SubSeq(s, 1, Len(w))
    /\ \/ /\ \A i \in DOMAIN w : w[i] \in PERLW
          /\ Len(s) > Len(w) => s[Len(w) + 1] \notin PERLW
       \/ /\ Len(w) = 1
          /\ w[1] \notin PERLW \cup WhiteSpaceChars

\* the text the scanner of the capture is run on
CaptureText == IF CapturesSpace(rules.scanner) THEN input.slice
               ELSE skip_leading(input).slice

\* C28: a word, as the Wordish word slicer cuts it and as the Wordish scanner
\* scans it, is a maximal run of word characters or one other character that
\* is not white space; a text that begins with white space has no word:
\* slice_word answers None and the scanner fails.
C28_WordishWords ==
    (CaptureDone /\ rules = Let("Wordish")) =>
        LET s == CaptureText
            b == slice_word("Wordish", s)
        IN  /\ b # None => IsWordOf(slice_to(s, b[1]), s)
            /\ lit_res.tag = "Ok" => IsWordOf(lit_res.out, s)
            /\ (s # <<>> /\ s[1] \in WhiteSpaceChars) =>
                  /\ b = None
                  /\ lit_res.tag = "Err"

(***************************************************************************)
(* Properties of scan!, continued: the errors of several rules.            *)
(***************************************************************************)
\* the first of the rules tried so far whose error is at the greatest offset
EarliestFurthest ==
    CHOOSE j \in DOMAIN rets :
        /\ \A k \in DOMAIN rets : rets[j].val.err.at >= rets[k].val.err.at
        /\ \A k \in 1 .. j - 1 : rets[k].val.err.at < rets[j].val.err.at

\* C29: when every rule fails and the errors of several rules are at the
\* greatest offset, scan! returns the error of the rule declared first among
\* them, with its kind: a later error replaces the one kept so far only when
\* its offset is strictly greater.
C29_TieKeepsEarliest ==
    (pc = "done" /\ result.tag = "Err") =>
        result.err = rets[EarliestFurthest].val.err

\* two rules failed at the greatest offset with errors of different kinds,
\* and scan! returned the error of the first of the two
C29_Witness ==
    /\ pc = "done"
    /\ result.tag = "Err"
    /\ \E j, k \in DOMAIN rets :
           /\ j < k
           /\ rets[j].val.err.at = result.err.at
           /\ rets[k].val.err.at = result.err.at
           /\ rets[j].val.err.kind # rets[k].val.err.kind
           /\ result.err.kind = rets[j].val.err.kind

(***************************************************************************)
(* Properties of the repetitions, continued: the error of a failed block.  *)
(***************************************************************************)
\* the frame f, as its loop left it, can be decided without a panic
Decidable(f) ==
    /\ repeat_failed(f) => f.break_err # None
    /\ f.break_src = "max" =>
           /\ f.break_err = None
           /\ ~repeat_failed(f)

\* C30: a repetition with min <= max that decides to fail, for too few
\* elements or for a separator no element follows, has recorded an error:
\* break_err is Some where it is unwrapped and the block returns that error
\* without a panic.  A loop left because max was reached records no error and
\* its block always goes on with the terms after the repetition.
C30_FailureHasError ==
    /\ pc = "after" => Decidable(Top)
    /\ rep_done.tag = "Some" =>
           LET f == rep_done.f
           IN  /\ Decidable(f)
               /\ rep_done.pc # "panic"
               /\ repeat_failed(f) =>
                      /\ rep_done.pc = "ret"
                      /\ rep_done.ret = [tag |-> "Err", err |-> f.break_err[1]]
               /\ f.break_src = "max" =>
                      /\ rep_done.pc = "scan"
                      /\ rep_done.terms = f.tail

\* a block with a maximum failed for a separator no element follows, with
\* elements enough, and returned the error it had recorded
C30_Witness ==
    /\ rep_done.tag = "Some"
    /\ rep_done.f.max # None
    /\ rep_done.f.break_after_sep
    /\ rep_done.f.repeats >= rep_done.f.min
    /\ rep_done.pc = "ret"
    /\ rep_done.ret.tag = "Err"
============================================================================
